---------------------------- MODULE Spec2Model ----------------------------
(***************************************************************************)
(* huuwax: the SDL interface thread (interface.c) and the OSC remote       *)
(* control (osc.c).  The model covers the render loop of interface_main,   *)
(* the SDL event queue it waits on, the refresh timer, the status          *)
(* callback, interface_stop, the rig lock ("the gate") and the thread on   *)
(* which liblo runs the OSC handlers.                                      *)
(***************************************************************************)
EXTENDS Integers, Sequences, FiniteSets, TLC

VARIABLES
    queue,          \* the SDL event queue, oldest event first
    gate,           \* holder of the rig lock: "none", "render" or "osc"
    pc,             \* position of the interface thread inside interface_main
    event,          \* interface_main: the event last returned by SDL_WaitEvent
    surface,        \* <<w, h>> of the current video surface, <<0, 0>> before set_size
    timer,          \* TRUE while the SDL timer that runs ticker is installed
    library_update, \* interface_main: dirty flags
    decks_update,
    status_update,
    rworkspace,     \* interface_main: rectangles
    rplayers,
    rlibrary,
    rstatus,
    calls,          \* draw_x and SDL_UpdateRect calls of the current iteration
    tick_pc,        \* ticker: "idle", "push" between the peek and the push, "found"
    stop_pc,        \* owning thread: "run", "join", "joined", "aborted"
    osc_pc,         \* liblo server thread: "recv" or "handler"
    osc_msg,        \* the message whose handler is running
    osc_trace,      \* the handlers that have run, each with the calls it made
    meter_scale,    \* static int meter_scale
    selector,       \* record the selector points at, 0 when it has no result
    deck,           \* deck[d]: the state of deck d
    geometry,       \* static int width, height: the configured window size
    start,          \* interface_start: its position, argument and return value
    meter,          \* draw_meters: its arguments and the pixels it has written
    osc,            \* struct osc, the methods of its server and add_deck's position
    inputs,         \* window-system events delivered so far
    messages        \* OSC messages received so far

vars == <<queue, gate, pc, event, surface, timer, library_update, decks_update,
          status_update, rworkspace, rplayers, rlibrary, rstatus, calls, tick_pc,
          stop_pc, osc_pc, osc_msg, osc_trace, meter_scale, selector, deck,
          geometry, start, meter, osc, inputs, messages>>

-----------------------------------------------------------------------------
(* Bounds of the model *)

MaxQueue == 2       \* events the SDL queue holds before SDL_PushEvent fails
MaxInputs == 2      \* window-system events delivered in one run
MaxMessages == 1    \* OSC messages received in one run
ndeck == 2          \* configured number of decks
NRecords == 1       \* records in the library
MaxZoomKeys == 9    \* zoom keys pressed in one run
MaxCueMessages == 3 \* OSC messages about cue points received in one run
MaxPosition == 1    \* the furthest the player position advances
MaxTempoMessages == 3 \* OSC messages about the tempo received in one run
MaxDeckKeys == 1    \* function keys pressed in one run
MaxPlayMessages == 3 \* OSC messages about playback received in one run
MaxSeekMessages == 2 \* OSC seek messages received in one run
MaxSeconds == 2     \* the longest track, in seconds
MaxBulkMessages == 2 \* OSC messages setting many cue points received in one run
MaxGeometryLen == 7 \* the longest geometry string given at startup
MaxLength == 3      \* the longest of the short tracks drawn, in samples
MaxMeterWidth == 3  \* the widest deck rectangle drawn, in pixels
MaxScale == 1       \* the coarsest zoom level drawn
MaxAdded == 10      \* calls of add_deck in one run
MaxFailures == 1    \* registrations that fail in one run

(* Window sizes the window system reports: room for every region, none    *)
(* for the library, none for library and status, a window lower than its   *)
(* own border, and one as wide as its border.                              *)
Sizes == { <<800, 600>>, <<800, 200>>, <<800, 100>>, <<800, 1>>, <<2, 600>> }

-----------------------------------------------------------------------------
(* Program constants *)

BORDER == 1
SPACER == 8
PLAYER_HEIGHT == 213
LIBRARY_MIN_WIDTH == 64
LIBRARY_MIN_HEIGHT == 64
DEFAULT_METER_SCALE == 8
MAX_METER_SCALE == 11
STATUS_HEIGHT == 12
MIN_ABOVE_STATUS == 128
FUNC_LOAD == 0
FUNC_RECUE == 1
FUNC_TIMECODE == 2
EVENT_TICKER == 0
EVENT_QUIT == 1
EVENT_STATUS == 2

(* SDL 1.2 key symbols and modifier masks used by handle_key *)
SDLK_BACKSPACE == 8
SDLK_TAB == 9
SDLK_SPACE == 32
SDLK_PLUS == 43
SDLK_MINUS == 45
SDLK_PERIOD == 46
SDLK_0 == 48
SDLK_9 == 57
SDLK_EQUALS == 61
SDLK_a == 97
SDLK_z == 122
SDLK_UP == 273
SDLK_DOWN == 274
SDLK_RIGHT == 275
SDLK_LEFT == 276
SDLK_HOME == 278
SDLK_END == 279
SDLK_PAGEUP == 280
SDLK_PAGEDOWN == 281
SDLK_F1 == 282
SDLK_F12 == 293
KMOD_NONE == 0
KMOD_LSHIFT == 1
KMOD_LCTRL == 64

-----------------------------------------------------------------------------
(* Rectangles and layout *)

rect(x, y, w, h) == [x |-> x, y |-> y, w |-> w, h |-> h]

NoRect == rect(0, 0, 0, 0)

(* C integer division truncates towards zero *)
CDiv(a, b) == IF a >= 0 THEN a \div b ELSE -((-a) \div b)

shrink(in, distance) ==
    rect(in.x + distance, in.y + distance, in.w - 2 * distance, in.h - 2 * distance)

(* split(x, from_top(distance, space), &a, &b) *)
split_from_top(in, distance, space) ==
    [a |-> rect(in.x, in.y, in.w, distance),
     b |-> rect(in.x, in.y + distance + space, in.w, in.h - distance - space)]

(* split(x, from_bottom(distance, space), &a, &b) *)
split_from_bottom(in, distance, space) ==
    [a |-> rect(in.x, in.y, in.w, in.h - distance - space),
     b |-> rect(in.x, in.y + in.h - distance, in.w, distance)]

(* split(x, columns(n, total, space), &a, &b) *)
split_columns(in, n, total, space) ==
    LET distance == CDiv(in.w, total - n) - CDiv(space, 2)
    IN  [a |-> rect(in.x, in.y, distance, in.h),
         b |-> rect(in.x + distance + space, in.y, in.w - distance - space, in.h)]


(* The tests of interface_main on the rectangles it has just split off *)
status_too_small(rtmp) == rtmp.h < MIN_ABOVE_STATUS \/ rtmp.w < 0

library_too_small(rl) == rl.h < LIBRARY_MIN_HEIGHT \/ rl.w < LIBRARY_MIN_WIDTH

(* the test on the decks area left out *)
decks_never_too_small(rp) == FALSE

decks_too_small(rp) == rp.h < 0 \/ rp.w < 0

(* the layout with the library area split off and its size not tested *)
layout_library_unchecked(rw, lu, su, du) ==
    LET s1 == split_from_bottom(rw, STATUS_HEIGHT, SPACER)
        rtmp == IF status_too_small(s1.a) THEN rw ELSE s1.a
        s2 == split_from_top(rtmp, PLAYER_HEIGHT, SPACER)
    IN  [rstatus |-> s1.b,
         rlibrary |-> s2.b,
         rplayers |-> s2.a,
         status_update |-> su /\ ~status_too_small(s1.a),
         library_update |-> lu,
         decks_update |-> du /\ ~decks_too_small(s2.a)]

(* interface_main, "Split the display into the various areas": the three   *)
(* rectangles and the dirty flags that survive.                            *)
layout(rw, lu, su, du) ==
    LET s1 == split_from_bottom(rw, STATUS_HEIGHT, SPACER)
        rtmp == IF status_too_small(s1.a) THEN rw ELSE s1.a
        s2 == split_from_top(rtmp, PLAYER_HEIGHT, SPACER)
        rp == IF library_too_small(s2.b) THEN rtmp ELSE s2.a
    IN  [rstatus |-> s1.b,
         rlibrary |-> s2.b,
         rplayers |-> rp,
         status_update |-> su /\ ~status_too_small(s1.a),
         library_update |-> lu /\ ~library_too_small(s2.b),
         decks_update |-> du /\ ~decks_too_small(rp)]

-----------------------------------------------------------------------------
(* Drawing.  A call is recorded as [op, region, r]; the meters write       *)
(* pixels directly, everything else goes through SDL, which clips.         *)

call(op, region, r) == [op |-> op, region |-> region, r |-> r]

(* draw_meters: closeup above, overview, mirrored closeup below *)
draw_meters(r) ==
    LET h == r.h
        s1 == split_from_top(r, CDiv(2 * h, 5), 0)
        s2 == split_from_top(s1.b, CDiv(h, 5), 0)
    IN  << call("draw_closeup", "decks", s1.a),
           call("draw_overview", "decks", s2.a),
           call("draw_closeup", "decks", s2.b) >>

(* draw_decks: the decks left to right, d = from .. ndecks - 1 *)
RECURSIVE draw_decks_from(_, _, _)
draw_decks_from(right, d, ndecks) ==
    IF d >= ndecks THEN << >>
    ELSE LET s == split_columns(right, d, ndecks, BORDER)
         IN  draw_meters(s.a) \o draw_decks_from(s.b, d + 1, ndecks)

draw_decks(r, ndecks) ==
    << call("draw_decks", "decks", r) >> \o draw_decks_from(r, 0, ndecks)

draw_library(r) == << call("draw_library", "library", r) >>

draw_status(r) == << call("draw_status", "status", r) >>

UPDATE(region, r) == << call("SDL_UpdateRect", region, r) >>

-----------------------------------------------------------------------------
(* The SDL event queue *)

Event(type, a, b) == [type |-> type, a |-> a, b |-> b]

UserEvent(code) == Event("SDL_USEREVENT", code, 0)

(* SDL_PushEvent: the event is dropped when the queue is full *)
SDL_PushEvent(q, e) == IF Len(q) < MaxQueue THEN Append(q, e) ELSE q

(* a peek that looks for pending ticks only *)
SDL_PeepEvents_TicksOnly(q) ==
    IF \E i \in 1..Len(q) : q[i] = UserEvent(EVENT_TICKER) THEN 1 ELSE 0

(* SDL_PeepEvents(&event, 1, SDL_PEEKEVENT, SDL_EVENTMASK(SDL_USEREVENT)) *)
SDL_PeepEvents(q) ==
    IF \E i \in 1..Len(q) : q[i].type = "SDL_USEREVENT" THEN 1 ELSE 0

Pending(q, code) ==
    Cardinality({i \in 1..Len(q) : q[i].type = "SDL_USEREVENT" /\ q[i].a = code})

(* status_change: the callback status_set runs *)
status_change(q) == SDL_PushEvent(q, UserEvent(EVENT_STATUS))

-----------------------------------------------------------------------------
(* Decks, the selector and the keyboard *)

Decks == 0..(ndeck - 1)

Records == 1..NRecords

(* A double that holds the quotient of two integers is kept as the pair    *)
(* <<n, d>> in lowest terms with d >= 0; <<n, 0>> is an infinity (n # 0),  *)
(* or not a number (n = 0).                                                *)
RECURSIVE Gcd(_, _)
Gcd(a, b) == IF b = 0 THEN a ELSE Gcd(b, a % b)

Abs(a) == IF a < 0 THEN -a ELSE a

Double(n, d) ==
    IF n = 0 /\ d = 0 THEN <<0, 0>>
    ELSE LET g == Gcd(Abs(n), Abs(d))
         IN  IF d < 0 THEN <<(-n) \div g, (-d) \div g>> ELSE <<n \div g, d \div g>>

(* a / b in double arithmetic, the rounding left aside *)
DoubleDiv(a, b) == Double(a[1] * b[2], a[2] * b[1])

(* a - b and a * b *)
DoubleSub(a, b) == Double(a[1] * b[2] - b[1] * a[2], a[2] * b[2])

DoubleMul(a, b) == Double(a[1] * b[1], a[2] * b[2])

(* !x of a double x *)
DoubleIsZero(a) == a[1] = 0 /\ a[2] # 0

DoubleIsNaN(a) == a[1] = 0 /\ a[2] = 0

(* a < b: false when either is not a number *)
DoubleLess(a, b) ==
    /\ ~DoubleIsNaN(a)
    /\ ~DoubleIsNaN(b)
    /\ IF a[2] = 0 /\ b[2] = 0 THEN a[1] < b[1]
       ELSE IF a[2] = 0 THEN a[1] < 0
       ELSE IF b[2] = 0 THEN b[1] > 0
       ELSE a[1] * b[2] < b[1] * a[2]

(* cues.h: the number of cue points of a deck, and the value of an unset one *)
MAX_CUES == 16

CUE_UNSET == -1

(* track.h: the sample rate of a track *)
TRACK_RATE == 44100

(* deck_init / player_init: no record loaded, under timecode control,      *)
(* stopped; player.position and player.offset, of which the playhead       *)
(* (player_get_elapsed) is the difference; the cue points all unset; the   *)
(* track empty, with its rate and no beat interval.                        *)
(* a track that holds no audio: struct track with length 0, not importing *)
NoTrack ==
    [length |-> 0, rate |-> TRACK_RATE, importing |-> FALSE,
     ppm |-> << >>, overview |-> << >>]

InitDeck ==
    [record |-> 0, timecode_control |-> TRUE, pitch |-> 0, position |-> 0,
     offset |-> <<0, 1>>, cues |-> [l \in 0..(MAX_CUES - 1) |-> CUE_UNSET], cue |-> 0,
     length |-> 0, rate |-> TRACK_RATE, beat_interval |-> <<0, 1>>]

deck_load(dk, d, re) ==
    [dk EXCEPT ![d].record = re, ![d].offset = Double(dk[d].position, 1)]

deck_recue(dk, d) == [dk EXCEPT ![d].offset = Double(dk[d].position, 1)]

deck_clone(dk, d, from) ==
    [dk EXCEPT ![d].record = dk[from].record,
               ![d].offset = DoubleSub(Double(dk[d].position, 1),
                                       DoubleSub(Double(dk[from].position, 1),
                                                 dk[from].offset))]

player_get_position(dk, d) == dk[d].position

player_get_elapsed(dk, d) == DoubleSub(Double(dk[d].position, 1), dk[d].offset)

player_seek_to(dk, d, seconds) ==
    [dk EXCEPT ![d].offset = DoubleSub(Double(dk[d].position, 1), seconds)]

(* cues_get: the values a read of the cue point can give; a label past the *)
(* end of the array reads whatever lies behind it.                         *)
cues_get(dk, d, label, values) ==
    IF label \in 0..(MAX_CUES - 1) THEN {dk[d].cues[label]} ELSE values

(* cues_set: a label past the end of the array writes behind it *)
cues_set(dk, d, label, p) ==
    IF label \in 0..(MAX_CUES - 1) THEN [dk EXCEPT ![d].cues[label] = p] ELSE dk

(* deck_cue: make the cue point the active one *)
deck_cue(dk, d, label) == [dk EXCEPT ![d].cue = label]

deck_unset_cue(dk, d, label) == cues_set(dk, d, label, CUE_UNSET)

player_toggle_timecode_control(dk, d) ==
    [dk EXCEPT ![d].timecode_control = ~dk[d].timecode_control]

player_set_timecode_control(dk, d, on) == [dk EXCEPT ![d].timecode_control = on]

HasShift(mod) == (mod % 4) # 0

HasCtrl(mod) == ((mod \div 64) % 4) # 0

IsRefineKey(key) ==
    \/ key >= SDLK_a /\ key <= SDLK_z
    \/ key >= SDLK_0 /\ key <= SDLK_9
    \/ key = SDLK_SPACE
    \/ key = SDLK_PERIOD

IsCursorKey(key) ==
    key \in {SDLK_HOME, SDLK_END, SDLK_UP, SDLK_DOWN, SDLK_PAGEUP, SDLK_PAGEDOWN}

IsViewKey(key) == key \in {SDLK_LEFT, SDLK_RIGHT, SDLK_TAB}

IsSelectorKey(key) ==
    IsRefineKey(key) \/ key = SDLK_BACKSPACE \/ IsCursorKey(key) \/ IsViewKey(key)

(* The records selector_current can return after the selector call that   *)
(* handle_key makes for the key: refining keeps the record or loses it,    *)
(* the cursor moves among the results, the other calls change the listing. *)
selector_after(key, sel) ==
    IF IsRefineKey(key) THEN {sel, 0}
    ELSE IF IsCursorKey(key) THEN (IF sel = 0 THEN {0} ELSE Records)
    ELSE 0..NRecords

(* the function key branch with no case for FUNC_LOAD *)
handle_function_key_no_load(key, mod, sel, dk) ==
    LET d == (key - SDLK_F1) \div 4
        func == (key - SDLK_F1) % 4
    IN  IF ~(d < ndeck) THEN dk
        ELSE IF HasShift(mod) THEN (IF func < ndeck THEN deck_clone(dk, d, func) ELSE dk)
        ELSE IF func = FUNC_RECUE THEN deck_recue(dk, d)
        ELSE IF func = FUNC_TIMECODE /\ ~HasCtrl(mod)
             THEN player_toggle_timecode_control(dk, d)
        ELSE dk

(* handle_key, the function key branch: deck d = (key - SDLK_F1) / 4 *)
handle_function_key(key, mod, sel, dk) ==
    LET d == (key - SDLK_F1) \div 4
        func == (key - SDLK_F1) % 4
    IN  IF ~(d < ndeck) THEN dk
        ELSE IF HasShift(mod) THEN (IF func < ndeck THEN deck_clone(dk, d, func) ELSE dk)
        ELSE IF func = FUNC_LOAD THEN (IF sel # 0 THEN deck_load(dk, d, sel) ELSE dk)
        ELSE IF func = FUNC_RECUE THEN deck_recue(dk, d)
        ELSE IF func = FUNC_TIMECODE /\ ~HasCtrl(mod)
             THEN player_toggle_timecode_control(dk, d)
        ELSE dk

(* handle_key without the two tests that keep meter_scale in its range *)
handle_key_unclamped(key, mod, sel, ms, dk) ==
    IF IsSelectorKey(key)
    THEN {[ret |-> TRUE, selector |-> s, meter_scale |-> ms, deck |-> dk] :
             s \in selector_after(key, sel)}
    ELSE IF key = SDLK_EQUALS \/ key = SDLK_PLUS
    THEN {[ret |-> FALSE, selector |-> sel, meter_scale |-> ms - 1, deck |-> dk]}
    ELSE IF key = SDLK_MINUS
    THEN {[ret |-> FALSE, selector |-> sel, meter_scale |-> ms + 1, deck |-> dk]}
    ELSE IF key >= SDLK_F1 /\ key <= SDLK_F12
    THEN {[ret |-> FALSE, selector |-> sel, meter_scale |-> ms,
           deck |-> handle_function_key(key, mod, sel, dk)]}
    ELSE {[ret |-> FALSE, selector |-> sel, meter_scale |-> ms, deck |-> dk]}

(* handle_key: the possible outcomes [ret, selector, meter_scale, deck] *)
handle_key(key, mod, sel, ms, dk) ==
    IF IsSelectorKey(key)
    THEN {[ret |-> TRUE, selector |-> s, meter_scale |-> ms, deck |-> dk] :
             s \in selector_after(key, sel)}
    ELSE IF key = SDLK_EQUALS \/ key = SDLK_PLUS
    THEN {[ret |-> FALSE, selector |-> sel,
           meter_scale |-> IF ms - 1 < 0 THEN 0 ELSE ms - 1, deck |-> dk]}
    ELSE IF key = SDLK_MINUS
    THEN {[ret |-> FALSE, selector |-> sel,
           meter_scale |-> IF ms + 1 > MAX_METER_SCALE THEN MAX_METER_SCALE ELSE ms + 1,
           deck |-> dk]}
    ELSE IF key >= SDLK_F1 /\ key <= SDLK_F12
    THEN {[ret |-> FALSE, selector |-> sel, meter_scale |-> ms,
           deck |-> handle_function_key(key, mod, sel, dk)]}
    ELSE {[ret |-> FALSE, selector |-> sel, meter_scale |-> ms, deck |-> dk]}

(* set_size that sets the video mode and leaves the workspace as it was *)
set_size_stale(w, h, sf, r) ==
    { [ok |-> TRUE, surface |-> <<w, h>>, r |-> r],
      [ok |-> FALSE, surface |-> sf, r |-> r] }

(* set_size: SDL_SetVideoMode may fail; on success the workspace is the    *)
(* window less its border.                                                 *)
set_size(w, h, sf, r) ==
    { [ok |-> TRUE, surface |-> <<w, h>>, r |-> shrink(rect(0, 0, w, h), BORDER)],
      [ok |-> FALSE, surface |-> sf, r |-> r] }

-----------------------------------------------------------------------------
(* Inputs of the model *)

(* The window geometry given at startup *)
Geometries == { <<800, 600>> }

(* Keys the keyboard sends: a search letter, a zoom key, a function key *)
Keys == { <<SDLK_a, KMOD_NONE>>, <<SDLK_MINUS, KMOD_NONE>>, <<SDLK_F1, KMOD_NONE>> }

OscOps == { "play", "connect" }

(* osc_init: a server without methods and no deck counted; add_deck has   *)
(* not been called                                                         *)
osc_init ==
    [lo |-> << >>, ndeck |-> 0, pc |-> "idle", path |-> "", len |-> 0, i |-> 0,
     deck |-> 0, ret |-> 0, entry |-> 0, calls |-> 0, failures |-> 0, bound |-> << >>]

(* the state before interface_main runs, but for the window geometry and *)
(* interface_start                                                         *)
InitRest ==
    /\ queue = << >>
    /\ gate = "none"
    /\ pc = "start"
    /\ event = Event("none", 0, 0)
    /\ surface = <<0, 0>>
    /\ timer = FALSE
    /\ library_update = FALSE
    /\ decks_update = FALSE
    /\ status_update = FALSE
    /\ rworkspace = NoRect
    /\ rplayers = NoRect
    /\ rlibrary = NoRect
    /\ rstatus = NoRect
    /\ calls = << >>
    /\ tick_pc = "idle"
    /\ stop_pc = "run"
    /\ osc_pc = "recv"
    /\ osc_msg = [op |-> "none", d |-> 0, args |-> << >>]
    /\ osc_trace = << >>
    /\ meter_scale = DEFAULT_METER_SCALE
    /\ selector = IF NRecords > 0 THEN 1 ELSE 0
    /\ deck = [d \in Decks |-> InitDeck]
    /\ inputs = 0
    /\ messages = 0
    /\ osc = osc_init

(* no deck has been drawn: draw_meters has no arguments and no pixels *)
NoMeter ==
    [pc |-> "idle", r |-> NoRect, tr |-> NoTrack, position |-> 0, scale |-> 0,
     closeup_upper |-> << >>, overview |-> << >>, closeup_bottom |-> << >>]

(* interface_start has returned 0 and the interface thread is about to run *)
Started == [pc |-> "returned", geo |-> << >>, ret |-> 0, thread |-> TRUE, error |-> "none"]

Init ==
    /\ InitRest
    /\ geometry \in Geometries
    /\ start = Started
    /\ meter = NoMeter

renderVars == <<pc, event, surface, timer, library_update, decks_update,
                status_update, rworkspace, rplayers, rlibrary, rstatus, calls>>

stateVars == <<meter_scale, selector, deck>>

otherVars ==
    <<tick_pc, stop_pc, osc_pc, osc_msg, osc_trace, geometry, start, meter, osc, inputs, messages>>

-----------------------------------------------------------------------------
(* interface_main *)

(* abort() ends the process, and every thread with it *)
Aborted == pc = "aborted" \/ stop_pc = "aborted"

(* the start of interface_main with decks_update left false *)
MainStart_DecksClean ==
    /\ ~Aborted
    /\ pc = "start"
    /\ \E o \in set_size(geometry[1], geometry[2], surface, rworkspace) :
        IF o.ok
        THEN /\ surface' = o.surface
             /\ rworkspace' = o.r
             /\ decks_update' = FALSE
             /\ status_update' = TRUE
             /\ library_update' = TRUE
             /\ timer' = TRUE
             /\ pc' = "first_lock"
        ELSE /\ pc' = "failed"
             /\ UNCHANGED <<surface, rworkspace, decks_update, status_update,
                            library_update, timer>>
    /\ UNCHANGED <<queue, gate, event, rplayers, rlibrary, rstatus, calls>>
    /\ UNCHANGED <<stateVars, otherVars>>

(* set_size(width, height), all flags dirty, SDL_AddTimer *)
MainStart ==
    /\ ~Aborted
    /\ pc = "start"
    /\ \E o \in set_size(geometry[1], geometry[2], surface, rworkspace) :
        IF o.ok
        THEN /\ surface' = o.surface
             /\ rworkspace' = o.r
             /\ decks_update' = TRUE
             /\ status_update' = TRUE
             /\ library_update' = TRUE
             /\ timer' = TRUE
             /\ pc' = "first_lock"
        ELSE /\ pc' = "failed"
             /\ UNCHANGED <<surface, rworkspace, decks_update, status_update,
                            library_update, timer>>
    /\ UNCHANGED <<queue, gate, event, rplayers, rlibrary, rstatus, calls>>
    /\ UNCHANGED <<stateVars, otherVars>>

(* rig_lock() before the loop *)
MainFirstLock ==
    /\ ~Aborted
    /\ pc = "first_lock"
    /\ gate = "none"
    /\ gate' = "render"
    /\ pc' = "unlock"
    /\ UNCHANGED <<queue, event, surface, timer, library_update, decks_update,
                   status_update, rworkspace, rplayers, rlibrary, rstatus, calls>>
    /\ UNCHANGED <<stateVars, otherVars>>

(* rig_unlock() at the top of the loop *)
LoopUnlock ==
    /\ ~Aborted
    /\ pc = "unlock"
    /\ gate' = "none"
    /\ pc' = "wait"
    /\ UNCHANGED <<queue, event, surface, timer, library_update, decks_update,
                   status_update, rworkspace, rplayers, rlibrary, rstatus, calls>>
    /\ UNCHANGED <<stateVars, otherVars>>

(* SDL_WaitEvent returns the oldest event *)
LoopWaitEvent ==
    /\ ~Aborted
    /\ pc = "wait"
    /\ queue # << >>
    /\ event' = Head(queue)
    /\ queue' = Tail(queue)
    /\ calls' = << >>
    /\ pc' = "lock"
    /\ UNCHANGED <<gate, surface, timer, library_update, decks_update,
                   status_update, rworkspace, rplayers, rlibrary, rstatus>>
    /\ UNCHANGED <<stateVars, otherVars>>

(* SDL_Event event before the first SDL_WaitEvent has filled it in: what   *)
(* the stack holds, which may read as any event                            *)
UninitializedEvents ==
    { Event("SDL_QUIT", 0, 0), Event("SDL_MOUSEMOTION", 0, 0), UserEvent(EVENT_TICKER) }

(* SDL_WaitEvent fails: it returns 0 and leaves event as it was; the test  *)
(* "< 0" does not hold for 0, so the loop goes on to rig_lock() and the    *)
(* switch                                                                  *)
LoopWaitEventFails ==
    /\ ~Aborted
    /\ pc = "wait"
    /\ \E ret \in {0} : pc' = IF ret < 0 THEN "finish" ELSE "lock"
    /\ event' \in IF event.type = "none" THEN UninitializedEvents ELSE {event}
    /\ calls' = << >>
    /\ UNCHANGED <<queue, gate, surface, timer, library_update, decks_update,
                   status_update, rworkspace, rplayers, rlibrary, rstatus>>
    /\ UNCHANGED <<stateVars, otherVars>>

(* LoopLock without the rig_lock() call *)
LoopLock_NoLock ==
    /\ ~Aborted
    /\ pc = "lock"
    /\ pc' = "handle"
    /\ UNCHANGED <<queue, gate, event, surface, timer, library_update, decks_update,
                   status_update, rworkspace, rplayers, rlibrary, rstatus, calls>>
    /\ UNCHANGED <<stateVars, otherVars>>

(* rig_lock() after the wait *)
LoopLock ==
    /\ ~Aborted
    /\ pc = "lock"
    /\ gate = "none"
    /\ gate' = "render"
    /\ pc' = "handle"
    /\ UNCHANGED <<queue, event, surface, timer, library_update, decks_update,
                   status_update, rworkspace, rplayers, rlibrary, rstatus, calls>>
    /\ UNCHANGED <<stateVars, otherVars>>

(* case SDL_QUIT: rig_quit() may fail, and then the thread returns -1 *)
HandleQuit ==
    /\ ~Aborted
    /\ pc = "handle"
    /\ event.type = "SDL_QUIT"
    /\ \E rig_quit \in {0, -1} : pc' = IF rig_quit = -1 THEN "failed" ELSE "layout"
    /\ UNCHANGED <<queue, gate, event, surface, timer, library_update, decks_update,
                   status_update, rworkspace, rplayers, rlibrary, rstatus, calls>>
    /\ UNCHANGED <<stateVars, otherVars>>

(* case SDL_VIDEORESIZE *)
HandleResize ==
    /\ ~Aborted
    /\ pc = "handle"
    /\ event.type = "SDL_VIDEORESIZE"
    /\ \E o \in set_size(event.a, event.b, surface, rworkspace) :
        IF o.ok
        THEN /\ surface' = o.surface
             /\ rworkspace' = o.r
             /\ library_update' = TRUE
             /\ decks_update' = TRUE
             /\ status_update' = TRUE
             /\ pc' = "layout"
        ELSE /\ pc' = "failed"
             /\ UNCHANGED <<surface, rworkspace, library_update, decks_update,
                            status_update>>
    /\ UNCHANGED <<queue, gate, event, timer, rplayers, rlibrary, rstatus, calls>>
    /\ UNCHANGED <<stateVars, otherVars>>

(* case SDL_USEREVENT, EVENT_TICKER *)
user_ticker(lu, su, du) ==
    [library_update |-> lu, status_update |-> su, decks_update |-> TRUE]

(* EVENT_STATUS falling through to the decks as well *)
user_status_and_decks(lu, su, du) ==
    [library_update |-> lu, status_update |-> TRUE, decks_update |-> TRUE]

(* case SDL_USEREVENT, EVENT_STATUS *)
user_status(lu, su, du) ==
    [library_update |-> lu, status_update |-> TRUE, decks_update |-> du]

(* case SDL_USEREVENT with a default that does nothing *)
HandleUser_NoAbort ==
    /\ ~Aborted
    /\ pc = "handle"
    /\ event.type = "SDL_USEREVENT"
    /\ LET f == IF event.a = EVENT_TICKER
                THEN user_ticker(library_update, status_update, decks_update)
                ELSE IF event.a = EVENT_STATUS
                THEN user_status(library_update, status_update, decks_update)
                ELSE [library_update |-> library_update,
                      status_update |-> status_update,
                      decks_update |-> decks_update]
       IN  /\ library_update' = f.library_update
           /\ status_update' = f.status_update
           /\ decks_update' = f.decks_update
    /\ pc' = IF event.a \in {EVENT_TICKER, EVENT_STATUS} THEN "layout"
             ELSE IF event.a = EVENT_QUIT THEN "finish"
             ELSE "layout"
    /\ UNCHANGED <<queue, gate, event, surface, timer, rworkspace, rplayers,
                   rlibrary, rstatus, calls>>
    /\ UNCHANGED <<stateVars, otherVars>>

(* case SDL_USEREVENT: switch (event.user.code) *)
HandleUser ==
    /\ ~Aborted
    /\ pc = "handle"
    /\ event.type = "SDL_USEREVENT"
    /\ LET f == IF event.a = EVENT_TICKER
                THEN user_ticker(library_update, status_update, decks_update)
                ELSE IF event.a = EVENT_STATUS
                THEN user_status(library_update, status_update, decks_update)
                ELSE [library_update |-> library_update,
                      status_update |-> status_update,
                      decks_update |-> decks_update]
       IN  /\ library_update' = f.library_update
           /\ status_update' = f.status_update
           /\ decks_update' = f.decks_update
    /\ pc' = IF event.a \in {EVENT_TICKER, EVENT_STATUS} THEN "layout"
             ELSE IF event.a = EVENT_QUIT THEN "finish"
             ELSE "aborted"
    /\ UNCHANGED <<queue, gate, event, surface, timer, rworkspace, rplayers,
                   rlibrary, rstatus, calls>>
    /\ UNCHANGED <<stateVars, otherVars>>

(* case SDL_KEYDOWN with the line library_update = true left out *)
HandleKeyDown_NoRedraw ==
    /\ ~Aborted
    /\ pc = "handle"
    /\ event.type = "SDL_KEYDOWN"
    /\ \E o \in handle_key(event.a, event.b, selector, meter_scale, deck) :
        /\ selector' = o.selector
        /\ meter_scale' = o.meter_scale
        /\ deck' = o.deck
        /\ queue' = IF o.ret THEN status_change(queue) ELSE queue
    /\ pc' = "layout"
    /\ UNCHANGED <<gate, event, surface, timer, library_update, decks_update,
                   status_update, rworkspace, rplayers, rlibrary, rstatus, calls>>
    /\ UNCHANGED otherVars

(* case SDL_KEYDOWN setting decks_update for every key *)
HandleKeyDown_DecksDirty ==
    /\ ~Aborted
    /\ pc = "handle"
    /\ event.type = "SDL_KEYDOWN"
    /\ \E o \in handle_key(event.a, event.b, selector, meter_scale, deck) :
        /\ selector' = o.selector
        /\ meter_scale' = o.meter_scale
        /\ deck' = o.deck
        /\ library_update' = (library_update \/ o.ret)
        /\ queue' = IF o.ret THEN status_change(queue) ELSE queue
    /\ decks_update' = TRUE
    /\ pc' = "layout"
    /\ UNCHANGED <<gate, event, surface, timer, status_update,
                   rworkspace, rplayers, rlibrary, rstatus, calls>>
    /\ UNCHANGED otherVars

(* case SDL_KEYDOWN: handle_key, and when it asks for a redraw of the      *)
(* selector, status_set (which runs status_change) and library_update.     *)
HandleKeyDown ==
    /\ ~Aborted
    /\ pc = "handle"
    /\ event.type = "SDL_KEYDOWN"
    /\ \E o \in handle_key(event.a, event.b, selector, meter_scale, deck) :
        /\ selector' = o.selector
        /\ meter_scale' = o.meter_scale
        /\ deck' = o.deck
        /\ library_update' = (library_update \/ o.ret)
        /\ queue' = IF o.ret THEN status_change(queue) ELSE queue
    /\ pc' = "layout"
    /\ UNCHANGED <<gate, event, surface, timer, decks_update, status_update,
                   rworkspace, rplayers, rlibrary, rstatus, calls>>
    /\ UNCHANGED otherVars

(* any other event type: no case of the switch matches *)
HandleOther ==
    /\ ~Aborted
    /\ pc = "handle"
    /\ event.type \notin {"SDL_QUIT", "SDL_VIDEORESIZE", "SDL_USEREVENT", "SDL_KEYDOWN"}
    /\ pc' = "layout"
    /\ UNCHANGED <<queue, gate, event, surface, timer, library_update, decks_update,
                   status_update, rworkspace, rplayers, rlibrary, rstatus, calls>>
    /\ UNCHANGED <<stateVars, otherVars>>

(* Split the display into the various areas *)
LoopLayout ==
    /\ ~Aborted
    /\ pc = "layout"
    /\ LET l == layout(rworkspace, library_update, status_update, decks_update)
       IN  /\ rstatus' = l.rstatus
           /\ rlibrary' = l.rlibrary
           /\ rplayers' = l.rplayers
           /\ status_update' = l.status_update
           /\ library_update' = l.library_update
           /\ decks_update' = l.decks_update
    /\ pc' = "paint"
    /\ UNCHANGED <<queue, gate, event, surface, timer, rworkspace, calls>>
    /\ UNCHANGED <<stateVars, otherVars>>

(* the paint section without the call of draw_status *)
paint_without_status(lu, su, du, rl, rs, rp) ==
    (IF lu THEN draw_library(rl) ELSE << >>)
    \o (IF du THEN draw_decks(rp, ndeck) ELSE << >>)

(* LOCK(surface); draw_library, draw_status, draw_decks as flagged; UNLOCK *)
paint(lu, su, du, rl, rs, rp) ==
    (IF lu THEN draw_library(rl) ELSE << >>)
    \o (IF su THEN draw_status(rs) ELSE << >>)
    \o (IF du THEN draw_decks(rp, ndeck) ELSE << >>)

LoopPaint ==
    /\ ~Aborted
    /\ pc = "paint"
    /\ calls' = calls \o paint(library_update, status_update, decks_update,
                               rlibrary, rstatus, rplayers)
    /\ pc' = "publish"
    /\ UNCHANGED <<queue, gate, event, surface, timer, library_update, decks_update,
                   status_update, rworkspace, rplayers, rlibrary, rstatus>>
    /\ UNCHANGED <<stateVars, otherVars>>

(* the publication with the decks first *)
publish_decks_first(lu, su, du, rl, rs, rp) ==
    (IF du THEN UPDATE("decks", rp) ELSE << >>)
    \o (IF lu THEN UPDATE("library", rl) ELSE << >>)
    \o (IF su THEN UPDATE("status", rs) ELSE << >>)

(* UPDATE and clear the flag, region by region *)
publish(lu, su, du, rl, rs, rp) ==
    (IF lu THEN UPDATE("library", rl) ELSE << >>)
    \o (IF su THEN UPDATE("status", rs) ELSE << >>)
    \o (IF du THEN UPDATE("decks", rp) ELSE << >>)

(* the publication with the status flag left as it is *)
LoopPublish_StatusKept ==
    /\ ~Aborted
    /\ pc = "publish"
    /\ calls' = calls \o publish(library_update, status_update, decks_update,
                                 rlibrary, rstatus, rplayers)
    /\ library_update' = FALSE
    /\ decks_update' = FALSE
    /\ pc' = "unlock"
    /\ UNCHANGED <<queue, gate, event, surface, timer, status_update, rworkspace,
                   rplayers, rlibrary, rstatus>>
    /\ UNCHANGED <<stateVars, otherVars>>

LoopPublish ==
    /\ ~Aborted
    /\ pc = "publish"
    /\ calls' = calls \o publish(library_update, status_update, decks_update,
                                 rlibrary, rstatus, rplayers)
    /\ library_update' = FALSE
    /\ status_update' = FALSE
    /\ decks_update' = FALSE
    /\ pc' = "unlock"
    /\ UNCHANGED <<queue, gate, event, surface, timer, rworkspace, rplayers,
                   rlibrary, rstatus>>
    /\ UNCHANGED <<stateVars, otherVars>>

(* finish: rig_unlock(); SDL_RemoveTimer(timer); return 0 *)
MainFinish ==
    /\ ~Aborted
    /\ pc = "finish"
    /\ gate' = "none"
    /\ timer' = FALSE
    /\ pc' = "done"
    /\ UNCHANGED <<queue, event, surface, library_update, decks_update,
                   status_update, rworkspace, rplayers, rlibrary, rstatus, calls>>
    /\ UNCHANGED <<stateVars, otherVars>>

-----------------------------------------------------------------------------
(* The refresh timer, the status callback and interface_stop *)

envVars == <<gate, renderVars, stateVars>>

(* ticker without the peek: every firing goes on to push *)
TickerPeek_NoPeek ==
    /\ ~Aborted
    /\ timer
    /\ tick_pc = "idle"
    /\ tick_pc' = "push"
    /\ UNCHANGED <<queue, envVars, stop_pc, osc_pc, osc_msg, osc_trace, geometry, start, meter, osc,
                   inputs, messages>>

(* ticker: SDL_PeepEvents for a pending user event *)
TickerPeek ==
    /\ ~Aborted
    /\ timer
    /\ tick_pc = "idle"
    /\ SDL_PeepEvents(queue) = 0
    /\ tick_pc' = "push"
    /\ UNCHANGED <<queue, envVars, stop_pc, osc_pc, osc_msg, osc_trace, geometry, start, meter, osc,
                   inputs, messages>>

(* ticker: SDL_PushEvent of EVENT_TICKER *)
TickerPush ==
    /\ ~Aborted
    /\ tick_pc = "push"
    /\ queue' = SDL_PushEvent(queue, UserEvent(EVENT_TICKER))
    /\ tick_pc' = "idle"
    /\ UNCHANGED <<envVars, stop_pc, osc_pc, osc_msg, osc_trace, geometry, start, meter, osc,
                   inputs, messages>>

(* ticker: the peek finds a user event pending, nothing is pushed *)
TickerPeekFound ==
    /\ ~Aborted
    /\ timer
    /\ tick_pc = "idle"
    /\ SDL_PeepEvents(queue) # 0
    /\ tick_pc' = "found"
    /\ UNCHANGED <<queue, envVars, stop_pc, osc_pc, osc_msg, osc_trace, geometry, start,
                   meter, osc, inputs, messages>>

(* ticker: return interval, after a peek that found a user event *)
TickerReturn ==
    /\ ~Aborted
    /\ tick_pc = "found"
    /\ tick_pc' = "idle"
    /\ UNCHANGED <<queue, envVars, stop_pc, osc_pc, osc_msg, osc_trace, geometry, start,
                   meter, osc, inputs, messages>>

(* status_set on some other thread runs status_change *)
StatusChange ==
    /\ ~Aborted
    /\ stop_pc # "joined"
    /\ Len(queue) < MaxQueue
    /\ queue' = status_change(queue)
    /\ UNCHANGED <<envVars, otherVars>>

(* interface_stop: SDL_PushEvent of EVENT_QUIT, abort() when it fails *)
interface_stop_push(q) ==
    IF Len(q) < MaxQueue
    THEN [queue |-> Append(q, UserEvent(EVENT_QUIT)), stop_pc |-> "join"]
    ELSE [queue |-> q, stop_pc |-> "aborted"]

InterfaceStop ==
    /\ ~Aborted
    /\ stop_pc = "run"
    /\ LET o == interface_stop_push(queue)
       IN  /\ queue' = o.queue
           /\ stop_pc' = o.stop_pc
    /\ UNCHANGED <<envVars, tick_pc, osc_pc, osc_msg, osc_trace, geometry, start, meter, osc,
                   inputs, messages>>

(* interface_stop: pthread_join returns once interface_main has returned *)
InterfaceJoin ==
    /\ ~Aborted
    /\ stop_pc = "join"
    /\ pc \in {"done", "failed"}
    /\ stop_pc' = "joined"
    /\ UNCHANGED <<queue, envVars, tick_pc, osc_pc, osc_msg, osc_trace, geometry, start, meter, osc,
                   inputs, messages>>

-----------------------------------------------------------------------------
(* The window system *)

Serving == pc \notin {"start", "done", "failed", "aborted"}

Deliver(e) ==
    /\ ~Aborted
    /\ Serving
    /\ inputs < MaxInputs
    /\ Len(queue) < MaxQueue
    /\ queue' = Append(queue, e)
    /\ inputs' = inputs + 1
    /\ UNCHANGED <<envVars, tick_pc, stop_pc, osc_pc, osc_msg, osc_trace, geometry, start,
                   meter, osc,
                   messages>>

WindowClose == Deliver(Event("SDL_QUIT", 0, 0))

WindowResize == \E s \in Sizes : Deliver(Event("SDL_VIDEORESIZE", s[1], s[2]))

KeyDown == \E k \in Keys : Deliver(Event("SDL_KEYDOWN", k[1], k[2]))

MouseMotion == Deliver(Event("SDL_MOUSEMOTION", 0, 0))

(* somebody else in the process pushes a user event with a code of its own *)
StrayUserEvent == Deliver(UserEvent(EVENT_STATUS + 1))

-----------------------------------------------------------------------------
(* The OSC server thread *)

(* handler_play leaving the deck under timecode control *)
handler_play_engaged(dk, d) ==
    IF dk[d].timecode_control
    THEN [dk EXCEPT ![d].pitch = 1]
    ELSE [dk EXCEPT ![d].pitch = IF dk[d].pitch = 0 THEN 1 ELSE 0]

(* handler_play *)
handler_play(dk, d) ==
    IF dk[d].timecode_control
    THEN [player_set_timecode_control(dk, d, FALSE) EXCEPT ![d].pitch = 1]
    ELSE [dk EXCEPT ![d].pitch = IF dk[d].pitch = 0 THEN 1 ELSE 0]

(* handler_connect *)
handler_connect(dk, d) == player_toggle_timecode_control(dk, d)

(* What a handler does is the new state of the decks and the calls it     *)
(* made to the cue points, to the player and to reply().                   *)
Done(dk, made) == [deck |-> dk, calls |-> made]

OscCall(op, d, a) == [op |-> op, d |-> d, a |-> a]

(* the values a cue point, or the memory behind the cue points, can hold *)
CueValues == {CUE_UNSET} \cup 0..MaxPosition

(* the test of the cue handlers on the label, label = argv[0]->i - 1 *)
label_refused(label) == label < 0 \/ label > MAX_CUES

(* handler_cue *)
handler_cue(dk, d, args) ==
    LET label == args[1] - 1
    IN  IF label_refused(label) THEN { Done(dk, << >>) }
        ELSE { Done(deck_cue(dk, d, label), << OscCall("deck_cue", d, label) >>) }

(* handler_cue_go taking the 1-based label for the index of the cue point *)
handler_cue_go_one_based(dk, d, args) ==
    LET label == args[1]
    IN  IF label_refused(label) THEN { Done(dk, << >>) }
        ELSE { IF p # CUE_UNSET
               THEN Done(player_seek_to(dk, d, Double(p, 1)),
                         << OscCall("cues_get", d, label), OscCall("player_seek_to", d, p) >>)
               ELSE Done(dk, << OscCall("cues_get", d, label) >>) :
               p \in cues_get(dk, d, label, CueValues) }

(* handler_cue_go *)
handler_cue_go(dk, d, args) ==
    LET label == args[1] - 1
    IN  IF label_refused(label) THEN { Done(dk, << >>) }
        ELSE { IF p # CUE_UNSET
               THEN Done(player_seek_to(dk, d, Double(p, 1)),
                         << OscCall("cues_get", d, label), OscCall("player_seek_to", d, p) >>)
               ELSE Done(dk, << OscCall("cues_get", d, label) >>) :
               p \in cues_get(dk, d, label, CueValues) }

(* lo_coerce(LO_DOUBLE, &d, types[1], argv[1]): with a second argument it  *)
(* gives the position; with the label alone types[1] is the end of the     *)
(* type string and argv[1] lies behind the arguments, and liblo decides    *)
(* whether that fails (0) or converts to zero (1).                         *)
lo_coerce(args) ==
    IF Len(args) > 1 THEN { <<1, args[2]>> } ELSE { <<0, 0>>, <<1, 0>> }

(* handler_cue_set *)
handler_cue_set(dk, d, args) ==
    LET label == args[1] - 1
    IN  IF label_refused(label) THEN { Done(dk, << >>) }
        ELSE { LET p == IF c[1] = 1 THEN c[2] ELSE player_get_position(dk, d)
               IN  Done(cues_set(dk, d, label, p), << OscCall("cues_set", d, label) >>) :
               c \in lo_coerce(args) }

(* An argument of a message with its type: a double, or a string *)
Arg(type, v) == [type |-> type, v |-> v]

(* lo_coerce(LO_DOUBLE, &p, types[i], argv[i]) of an argument there is *)
can_coerce(arg) == arg.type \in {"i", "f", "h", "d"}

(* handler_cue_set_many writing the argument at place i to label i *)
handler_cue_set_many_by_place(dk, d, args) ==
    LET places == { i \in 1..Len(args) : i - 1 < MAX_CUES /\ can_coerce(args[i]) }
    IN  { Done([dk EXCEPT ![d].cues = [l \in 0..(MAX_CUES - 1) |->
                                          IF l + 1 \in places THEN args[l + 1].v ELSE @[l]]],
               [k \in 1..Cardinality(places) |-> OscCall("cues_set", d, k - 1)]) }

(* the loop of handler_cue_set_many from argument i (counted from 1) and   *)
(* label on                                                                *)
RECURSIVE cue_set_many(_, _, _, _, _, _)
cue_set_many(dk, d, args, i, label, made) ==
    IF ~(i <= Len(args) /\ label < MAX_CUES) THEN Done(dk, made)
    ELSE IF ~can_coerce(args[i]) THEN cue_set_many(dk, d, args, i + 1, label, made)
    ELSE cue_set_many(cues_set(dk, d, label, args[i].v), d, args, i + 1, label + 1,
                      Append(made, OscCall("cues_set", d, label)))

(* handler_cue_set_many *)
handler_cue_set_many(dk, d, args) == { cue_set_many(dk, d, args, 1, 0, << >>) }

(* handler_cue_unset *)
handler_cue_unset(dk, d, args) ==
    LET label == args[1] - 1
    IN  IF label_refused(label) THEN { Done(dk, << >>) }
        ELSE { Done(deck_unset_cue(dk, d, label), << OscCall("deck_unset_cue", d, label) >>) }

(* handler_bpm_get replying with beats per second *)
handler_bpm_get_per_second(dk, d, args) ==
    IF DoubleIsZero(dk[d].beat_interval) THEN { Done(dk, << >>) }
    ELSE { Done(dk, << OscCall("reply", d,
                         DoubleDiv(Double(dk[d].rate, 1), dk[d].beat_interval)) >>) }

(* handler_bpm_get *)
handler_bpm_get(dk, d, args) ==
    IF DoubleIsZero(dk[d].beat_interval) THEN { Done(dk, << >>) }
    ELSE { Done(dk, << OscCall("reply", d,
                         DoubleDiv(Double(dk[d].rate * 60, 1), dk[d].beat_interval)) >>) }

(* handler_bpm_set *)
handler_bpm_set(dk, d, args) ==
    { Done([dk EXCEPT ![d].beat_interval = DoubleDiv(Double(60 * dk[d].rate, 1), args[1])],
           << >>) }

(* handler_clone taking the number of the source deck for its index *)
handler_clone_zero_based(dk, d, args) ==
    LET i == args[1]
    IN  IF i >= 0 /\ i < ndeck
        THEN { Done(deck_clone(dk, d, i), << OscCall("deck_clone", d, i) >>) }
        ELSE { Done(dk, << >>) }

(* handler_clone: the source deck is deck[i - 1] *)
handler_clone(dk, d, args) ==
    LET i == args[1]
    IN  IF i > 0 /\ i <= ndeck
        THEN { Done(deck_clone(dk, d, i - 1), << OscCall("deck_clone", d, i - 1) >>) }
        ELSE { Done(dk, << >>) }

(* handler_pitch *)
handler_pitch(dk, d, args) == { Done([dk EXCEPT ![d].pitch = args[1]], << >>) }

(* handler_position_rel *)
handler_position_rel(dk, d, args) ==
    LET p == IF DoubleLess(args[1], <<0, 1>>) THEN <<0, 1>>
             ELSE IF DoubleLess(<<1, 1>>, args[1]) THEN <<1, 1>>
             ELSE args[1]
        l == DoubleDiv(Double(dk[d].length, 1), Double(dk[d].rate, 1))
    IN  { Done(player_seek_to(dk, d, DoubleMul(p, l)),
               << OscCall("player_seek_to", d, DoubleMul(p, l)) >>) }

(* handler_recue *)
handler_recue(dk, d, args) == { Done(deck_recue(dk, d), << OscCall("deck_recue", d, 0) >>) }

(* the handler registered by add_deck for the path of the message *)
handler(msg, dk) ==
    IF msg.op = "play" THEN { Done(handler_play(dk, msg.d), << >>) }
    ELSE IF msg.op = "connect" THEN { Done(handler_connect(dk, msg.d), << >>) }
    ELSE IF msg.op = "cue" THEN handler_cue(dk, msg.d, msg.args)
    ELSE IF msg.op = "cue/go" THEN handler_cue_go(dk, msg.d, msg.args)
    ELSE IF msg.op = "cue/set" /\ Len(msg.args) <= 2 THEN handler_cue_set(dk, msg.d, msg.args)
    ELSE IF msg.op = "cue/set" THEN handler_cue_set_many(dk, msg.d, msg.args)
    ELSE IF msg.op = "cue/unset" THEN handler_cue_unset(dk, msg.d, msg.args)
    ELSE IF msg.op = "bpm/get" THEN handler_bpm_get(dk, msg.d, msg.args)
    ELSE IF msg.op = "bpm/set" THEN handler_bpm_set(dk, msg.d, msg.args)
    ELSE IF msg.op = "recue" THEN handler_recue(dk, msg.d, msg.args)
    ELSE IF msg.op = "clone" THEN handler_clone(dk, msg.d, msg.args)
    ELSE IF msg.op = "pitch" THEN handler_pitch(dk, msg.d, msg.args)
    ELSE IF msg.op = "seek" THEN handler_position_rel(dk, msg.d, msg.args)
    ELSE { Done(dk, << >>) }

Message(op, d, args) == [op |-> op, d |-> d, args |-> args]

(* liblo has received a message and is about to call the handler of its path *)
Receive(msg) ==
    /\ ~Aborted
    /\ osc_pc = "recv"
    /\ osc_msg' = msg
    /\ osc_pc' = "handler"
    /\ messages' = messages + 1
    /\ UNCHANGED <<queue, envVars, tick_pc, stop_pc, osc_trace, geometry, start, meter,
                   osc, inputs>>

OscReceive ==
    /\ messages < MaxMessages
    /\ \E op \in OscOps, d \in Decks : Receive(Message(op, d, << >>))

(* The 1-based labels a cue message carries: the first and the last cue    *)
(* point, and the numbers next to them.                                    *)
LabelArgs == { 0, 1, MAX_CUES, MAX_CUES + 1, MAX_CUES + 2 }

(* the decks the messages go to *)
OscDecks == { 0, ndeck - 1 }

(* /deckN/cue i, cue/go i, cue/set i, cue/set i d, cue/unset i with every  *)
(* one of these labels                                                     *)
LabelMessages ==
    { Message(op, d, << n >>) :
        op \in {"cue", "cue/go", "cue/set", "cue/unset"}, d \in OscDecks, n \in LabelArgs }
    \cup { Message("cue/set", d, << n, MaxPosition >>) : d \in OscDecks, n \in LabelArgs }

LabelReceive ==
    /\ messages < MaxMessages
    /\ \E msg \in LabelMessages : Receive(msg)

(* the cue points the messages below are about, as <<deck, 1-based label>>: *)
(* the first and the last of a deck, and the first of another deck         *)
CueTargets == { <<0, 1>>, <<0, MAX_CUES>>, <<ndeck - 1, 1>> }

(* /deckN/cue/go i, cue/set i, cue/set i d, cue/unset i and /deckN/recue *)
CueMessages ==
    { Message(op, t[1], << t[2] >>) :
        op \in {"cue/go", "cue/set", "cue/unset"}, t \in CueTargets }
    \cup { Message("cue/set", t[1], << t[2], MaxPosition >>) : t \in CueTargets }
    \cup { Message("recue", d, << >>) : d \in OscDecks }

CueReceive ==
    /\ messages < MaxCueMessages
    /\ \E msg \in CueMessages : Receive(msg)

(* The tempos a /deckN/bpm/set carries: zero, whole and fractional beats   *)
(* per minute, a negative number and infinity.                             *)
TempoArgs == { <<0, 1>>, <<120, 1>>, <<175, 2>>, <<-90, 1>>, <<1, 0>> }

(* /deckN/bpm/set b and /deckN/bpm/get *)
TempoMessages ==
    { Message("bpm/set", d, << b >>) : d \in OscDecks, b \in TempoArgs }
    \cup { Message("bpm/get", d, << >>) : d \in OscDecks }

TempoReceive ==
    /\ messages < MaxTempoMessages
    /\ \E msg \in TempoMessages : Receive(msg)

(* /deck1/clone i with the numbers of the first and the last deck and the *)
(* numbers next to them                                                    *)
CloneMessages ==
    { Message("clone", 0, << i >>) : i \in {0, 1, ndeck, ndeck + 1} }

CloneReceive ==
    /\ messages < MaxMessages
    /\ \E msg \in CloneMessages : Receive(msg)

(* /deckN/play, /deckN/connect and /deckN/pitch p, with the player        *)
(* stopped, played backwards and at double speed                           *)
PlayMessages ==
    { Message(op, d, << >>) : op \in {"play", "connect"}, d \in OscDecks }
    \cup { Message("pitch", d, << p >>) : d \in OscDecks, p \in {0, -1, 2} }

PlayReceive ==
    /\ messages < MaxPlayMessages
    /\ \E msg \in PlayMessages : Receive(msg)

(* The fractions a /deckN/seek carries: below, at and above the            *)
(* ends of [0, 1], inside it, the infinities and not a number.             *)
SeekArgs ==
    { <<-1, 2>>, <<0, 1>>, <<1, 2>>, <<1, 1>>, <<3, 2>>, <<-1, 0>>, <<1, 0>>, <<0, 0>> }

SeekMessages == { Message("seek", d, << f >>) : d \in OscDecks, f \in SeekArgs }

SeekReceive ==
    /\ messages < MaxSeekMessages
    /\ \E msg \in SeekMessages : Receive(msg)

(* the import of a track appends a second of audio to it *)
TrackImport ==
    /\ ~Aborted
    /\ \E d \in OscDecks :
          /\ deck[d].length < MaxSeconds * deck[d].rate
          /\ deck' = [deck EXCEPT ![d].length = deck[d].length + deck[d].rate]
    /\ UNCHANGED <<queue, gate, renderVars, meter_scale, selector, otherVars>>

(* n arguments that are the doubles from + 1, from + 2, ..., but for a     *)
(* string at place gap                                                     *)
ManyArgs(n, from, gap) ==
    [i \in 1..n |-> IF i = gap THEN Arg("s", 0) ELSE Arg("d", from + i)]

(* /deckN/cue/set with three arguments or more, which the methods for one  *)
(* and for two numbers do not take: fewer than, as many as and more than   *)
(* MAX_CUES of them, all numbers or with a string among them.              *)
BulkMessages ==
    { Message("cue/set", d, ManyArgs(n, from, gap)) :
        d \in OscDecks, n \in {3, MAX_CUES, MAX_CUES + 1, MAX_CUES + 2},
        from \in {0, 50}, gap \in {0, 2} }

BulkReceive ==
    /\ messages < MaxBulkMessages
    /\ \E msg \in BulkMessages : Receive(msg)

(* the audio engine moves the position of a player *)
PlayerAdvance ==
    /\ ~Aborted
    /\ \E d \in OscDecks :
          /\ deck[d].position < MaxPosition
          /\ deck' = [deck EXCEPT ![d].position = deck[d].position + 1]
    /\ UNCHANGED <<queue, gate, renderVars, meter_scale, selector, otherVars>>

(* the handler runs to its return *)
OscHandler ==
    /\ ~Aborted
    /\ osc_pc = "handler"
    /\ \E o \in handler(osc_msg, deck) :
          /\ deck' = o.deck
          /\ osc_trace' = Append(osc_trace, [msg |-> osc_msg, calls |-> o.calls])
    /\ osc_pc' = "recv"
    /\ UNCHANGED <<queue, gate, renderVars, meter_scale, selector, tick_pc, stop_pc,
                   osc_msg, geometry, start, meter, osc, inputs, messages>>

-----------------------------------------------------------------------------

Render ==
    \/ MainStart
    \/ MainFirstLock
    \/ LoopUnlock
    \/ LoopWaitEvent
    \/ LoopLock
    \/ HandleQuit
    \/ HandleResize
    \/ HandleUser
    \/ HandleKeyDown
    \/ HandleOther
    \/ LoopLayout
    \/ LoopPaint
    \/ LoopPublish
    \/ MainFinish

Owner ==
    \/ InterfaceStop
    \/ InterfaceJoin

Environment ==
    \/ TickerPeek
    \/ TickerPush
    \/ StatusChange
    \/ WindowClose
    \/ WindowResize
    \/ KeyDown
    \/ MouseMotion

Osc ==
    \/ OscReceive
    \/ OscHandler

(* The interface thread, its event sources and its owner *)
Next == Render \/ Owner \/ Environment

Spec == Init /\ [][Next]_vars

(* The interface thread that nobody stops, in a window that nobody        *)
(* touches, with the refresh timer and status changes from other threads.  *)
(* The thread and the timer are scheduled fairly: each takes its next step *)
(* whenever it has one; status changes come as they please.                *)
RenderTicks ==
    \/ MainStart
    \/ MainFirstLock
    \/ LoopUnlock
    \/ LoopWaitEvent
    \/ LoopLock
    \/ HandleUser
    \/ LoopLayout
    \/ LoopPaint
    \/ LoopPublish

Ticker ==
    \/ TickerPeek
    \/ TickerPeekFound
    \/ TickerReturn
    \/ TickerPush

NextTicks == RenderTicks \/ Ticker \/ StatusChange

SpecTicks ==
    Init /\ [][NextTicks]_vars /\ WF_vars(RenderTicks) /\ WF_vars(Ticker)

(* The same with an event queue that may fail: SDL_WaitEvent may return    *)
(* without an event                                                        *)
NextGate == Next \/ LoopWaitEventFails

SpecGate == Init /\ [][NextGate]_vars

(* The interface thread with the OSC server thread beside it; the window   *)
(* system sends nothing, so only user events reach the loop.               *)
RenderUser ==
    \/ MainStart
    \/ MainFirstLock
    \/ LoopUnlock
    \/ LoopWaitEvent
    \/ LoopLock
    \/ HandleUser
    \/ LoopLayout
    \/ LoopPaint
    \/ LoopPublish
    \/ MainFinish

NextOsc == RenderUser \/ Owner \/ TickerPeek \/ TickerPush \/ StatusChange \/ Osc

SpecOsc == Init /\ [][NextOsc]_vars

(* The interface thread with the refresh timer, the mouse, and user events *)
(* that are not its own.                                                   *)
RenderOther ==
    \/ MainStart
    \/ MainFirstLock
    \/ LoopUnlock
    \/ LoopWaitEvent
    \/ LoopLock
    \/ HandleUser
    \/ HandleOther
    \/ LoopLayout
    \/ LoopPaint
    \/ LoopPublish

NextOther == RenderOther \/ TickerPeek \/ TickerPush \/ MouseMotion \/ StrayUserEvent

SpecOther == Init /\ [][NextOther]_vars

(* The keys of the keyboard that handle_key tells apart: search, cursor,   *)
(* view, zoom and function keys, plain and with shift or ctrl.             *)
AllKeys ==
    { <<SDLK_a, KMOD_NONE>>, <<SDLK_0, KMOD_NONE>>, <<SDLK_BACKSPACE, KMOD_NONE>>,
      <<SDLK_UP, KMOD_NONE>>, <<SDLK_HOME, KMOD_NONE>>, <<SDLK_PAGEDOWN, KMOD_NONE>>,
      <<SDLK_TAB, KMOD_NONE>>, <<SDLK_TAB, KMOD_LCTRL>>,
      <<SDLK_PLUS, KMOD_NONE>>, <<SDLK_MINUS, KMOD_NONE>>,
      <<SDLK_F1, KMOD_NONE>>, <<SDLK_F1 + 1, KMOD_NONE>>, <<SDLK_F1 + 2, KMOD_NONE>>,
      <<SDLK_F1 + 3, KMOD_NONE>>, <<SDLK_F1 + 2, KMOD_LCTRL>>,
      <<SDLK_F1 + 4, KMOD_LSHIFT>>, <<SDLK_F12, KMOD_NONE>> }

KeyPress == \E k \in AllKeys : Deliver(Event("SDL_KEYDOWN", k[1], k[2]))

(* The interface thread with the keyboard and the refresh timer *)
RenderKeys ==
    \/ MainStart
    \/ MainFirstLock
    \/ LoopUnlock
    \/ LoopWaitEvent
    \/ LoopLock
    \/ HandleUser
    \/ HandleKeyDown
    \/ LoopLayout
    \/ LoopPaint
    \/ LoopPublish

NextKeys == RenderKeys \/ KeyPress \/ TickerPeek \/ TickerPush

SpecKeys == Init /\ [][NextKeys]_vars

(* The OSC server thread by itself, with messages about cue points, and    *)
(* the audio engine moving the players.                                    *)
NextCue == CueReceive \/ OscHandler \/ PlayerAdvance

SpecCue == Init /\ [][NextCue]_vars

(* The same with cue messages that carry labels in and out of range *)
NextLabel == LabelReceive \/ OscHandler \/ PlayerAdvance

SpecLabel == Init /\ [][NextLabel]_vars

(* The OSC server thread with messages about playback, and the audio       *)
(* engine moving the players.                                              *)
NextPlay == PlayReceive \/ OscHandler \/ PlayerAdvance

SpecPlay == Init /\ [][NextPlay]_vars

(* The OSC server thread with messages that set many cue points *)
NextBulk == BulkReceive \/ OscHandler

SpecBulk == Init /\ [][NextBulk]_vars

(* The OSC server thread with seek messages, and tracks being imported *)
NextSeek == SeekReceive \/ OscHandler \/ TrackImport

SpecSeek == Init /\ [][NextSeek]_vars

(* The OSC server thread with messages about the tempo *)
NextTempo == TempoReceive \/ OscHandler

SpecTempo == Init /\ [][NextTempo]_vars

(* The zoom keys: = and + zoom in, - zooms out *)
ZoomKeys == { SDLK_EQUALS, SDLK_PLUS, SDLK_MINUS }

ZoomKeyPress ==
    /\ ~Aborted
    /\ Serving
    /\ inputs < MaxZoomKeys
    /\ Len(queue) < MaxQueue
    /\ \E key \in ZoomKeys : queue' = Append(queue, Event("SDL_KEYDOWN", key, KMOD_NONE))
    /\ inputs' = inputs + 1
    /\ UNCHANGED <<envVars, tick_pc, stop_pc, osc_pc, osc_msg, osc_trace, geometry, start,
                   meter, osc, messages>>

(* The interface thread with somebody at the zoom keys *)
RenderZoom ==
    \/ MainStart
    \/ MainFirstLock
    \/ LoopUnlock
    \/ LoopWaitEvent
    \/ LoopLock
    \/ HandleKeyDown
    \/ LoopLayout
    \/ LoopPaint
    \/ LoopPublish

NextZoom == RenderZoom \/ ZoomKeyPress

SpecZoom == Init /\ [][NextZoom]_vars

(* Function keys of the first and of the third group of four: recue of    *)
(* deck 0 and of deck 2, and with shift the clones into deck 0 from deck 1 *)
(* and from deck 3, and into deck 2 from deck 0.                           *)
DeckKeys ==
    { <<SDLK_F1 + 1, KMOD_NONE>>, <<SDLK_F1 + 9, KMOD_NONE>>,
      <<SDLK_F1 + 1, KMOD_LSHIFT>>, <<SDLK_F1 + 3, KMOD_LSHIFT>>,
      <<SDLK_F1 + 8, KMOD_LSHIFT>> }

DeckKeyPress ==
    /\ ~Aborted
    /\ Serving
    /\ inputs < MaxDeckKeys
    /\ Len(queue) < MaxQueue
    /\ \E k \in DeckKeys : queue' = Append(queue, Event("SDL_KEYDOWN", k[1], k[2]))
    /\ inputs' = inputs + 1
    /\ UNCHANGED <<envVars, tick_pc, stop_pc, osc_pc, osc_msg, osc_trace, geometry, start,
                   meter, osc, messages>>

(* The interface thread with somebody at the function keys, the OSC server *)
(* thread with clone messages, and the audio engine moving the players.    *)
NextClone == RenderZoom \/ DeckKeyPress \/ CloneReceive \/ OscHandler \/ PlayerAdvance

SpecClone == Init /\ [][NextClone]_vars

-----------------------------------------------------------------------------
(* interface_start *)

DEFAULT_WIDTH == 960

DEFAULT_HEIGHT == 720

(* what sscanf returns when the input ends before the first conversion *)
EOF == -1

(* The characters of a geometry string: a digit, the two separators and    *)
(* one that belongs to no geometry.                                        *)
GeometryChars == {"8", "x", "+", "j"}

GeometryStrings == UNION { [1..n -> GeometryChars] : n \in 0..MaxGeometryLen }

IsDigit(c) == c = "8"

(* the digits of s from place i on: the place after them and their value,  *)
(* v being the value of the digits before                                  *)
RECURSIVE ScanDigits(_, _, _)
ScanDigits(s, i, v) ==
    IF i <= Len(s) /\ IsDigit(s[i]) THEN ScanDigits(s, i + 1, v * 10 + 8)
    ELSE [next |-> i, value |-> v]

(* the conversion %d at place i: an optional sign and at least one digit *)
ScanInt(s, i) ==
    LET j == IF i <= Len(s) /\ s[i] = "+" THEN i + 1 ELSE i
        r == ScanDigits(s, j, 0)
    IN  [ok |-> r.next > j, next |-> r.next, value |-> r.value]

Literal(s, i, c) == i <= Len(s) /\ s[i] = c

(* sscanf(s, "%dx%d+%d+%d", &width, &height, &x, &y): the number of        *)
(* conversions made, and width and height as it leaves them                *)
sscanf(s, w, h) ==
    LET a == ScanInt(s, 1)
        b == ScanInt(s, a.next + 1)
        c == ScanInt(s, b.next + 1)
        e == ScanInt(s, c.next + 1)
    IN  IF Len(s) = 0 THEN [n |-> EOF, width |-> w, height |-> h]
        ELSE IF ~a.ok THEN [n |-> 0, width |-> w, height |-> h]
        ELSE IF ~(Literal(s, a.next, "x") /\ b.ok)
        THEN [n |-> 1, width |-> a.value, height |-> h]
        ELSE IF ~(Literal(s, b.next, "+") /\ c.ok)
        THEN [n |-> 2, width |-> a.value, height |-> b.value]
        ELSE IF ~(Literal(s, c.next, "+") /\ e.ok)
        THEN [n |-> 3, width |-> a.value, height |-> b.value]
        ELSE [n |-> 4, width |-> a.value, height |-> b.value]

(* parse_geometry with a default that returns 0 *)
parse_geometry_lenient(s, w, h) ==
    LET o == sscanf(s, w, h)
    IN  IF o.n = 4
        THEN { [ret |-> 0, width |-> o.width, height |-> o.height],
               [ret |-> -1, width |-> o.width, height |-> o.height] }
        ELSE { [ret |-> 0, width |-> o.width, height |-> o.height] }

(* parse_geometry: the empty string and two conversions are taken as they  *)
(* are, four conversions call putenv, which may fail; anything else is     *)
(* refused.                                                                *)
parse_geometry(s, w, h) ==
    LET o == sscanf(s, w, h)
    IN  IF o.n = EOF \/ o.n = 2
        THEN { [ret |-> 0, width |-> o.width, height |-> o.height] }
        ELSE IF o.n = 4
        THEN { [ret |-> 0, width |-> o.width, height |-> o.height],
               [ret |-> -1, width |-> o.width, height |-> o.height] }
        ELSE { [ret |-> -1, width |-> o.width, height |-> o.height] }

(* interface_start returns -1 from the step named *)
Refused(step) == [start EXCEPT !.pc = "returned", !.ret = -1, !.error = step]

startRest ==
    <<queue, envVars, tick_pc, stop_pc, osc_pc, osc_msg, osc_trace, meter, osc, inputs, messages>>

(* parse_geometry(geo) *)
StartGeometry ==
    /\ ~Aborted
    /\ start.pc = "parse_geometry"
    /\ \E o \in parse_geometry(start.geo, geometry[1], geometry[2]) :
          /\ geometry' = <<o.width, o.height>>
          /\ start' = IF o.ret = -1 THEN Refused("geometry")
                      ELSE [start EXCEPT !.pc = "timecoder_monitor_init"]
    /\ UNCHANGED startRest

(* a step of interface_start that returns -1 when the call it makes fails *)
StartStep(step, next) ==
    /\ ~Aborted
    /\ start.pc = step
    /\ \/ start' = [start EXCEPT !.pc = next]
       \/ start' = Refused(step)
    /\ UNCHANGED <<geometry, startRest>>

(* timecoder_monitor_init for every deck *)
StartMonitors == StartStep("timecoder_monitor_init", "init_spinner")

(* init_spinner; then selector_init, status_notify and status_set, whose   *)
(* status_change finds no event queue before SDL_Init                      *)
StartSpinner == StartStep("init_spinner", "SDL_Init")

StartSDL == StartStep("SDL_Init", "TTF_Init")

StartTTF == StartStep("TTF_Init", "load_fonts")

(* load_fonts: -1 when one of the fonts is not found *)
StartFonts == StartStep("load_fonts", "pthread_create")

(* pthread_create(&ph, NULL, launch, NULL) *)
StartThread ==
    /\ ~Aborted
    /\ start.pc = "pthread_create"
    /\ \/ start' = [start EXCEPT !.pc = "returned", !.ret = 0, !.thread = TRUE]
       \/ start' = Refused("pthread_create")
    /\ UNCHANGED <<geometry, startRest>>

(* interface_start called with a geometry string *)
InitStart ==
    /\ InitRest
    /\ geometry = <<DEFAULT_WIDTH, DEFAULT_HEIGHT>>
    /\ start \in { [pc |-> "parse_geometry", geo |-> g, ret |-> 0, thread |-> FALSE,
                     error |-> "none"] : g \in GeometryStrings }
    /\ meter = NoMeter

NextStart ==
    \/ StartGeometry
    \/ StartMonitors
    \/ StartSpinner
    \/ StartSDL
    \/ StartTTF
    \/ StartFonts
    \/ StartThread

SpecStart == InitStart /\ [][NextStart]_vars

-----------------------------------------------------------------------------
(* The meters of a deck: draw_overview and draw_closeup write the pixels   *)
(* of their rectangle one column at a time, the rows from the top down.    *)

METER_WARNING_TIME == 20

(* SDL_Color, the channels the meters write *)
SDL_Color(r, g, b) == [r |-> r, g |-> g, b |-> b]

background_col == SDL_Color(0, 0, 0)
warn_col == SDL_Color(192, 64, 0)
elapsed_col == SDL_Color(0, 32, 255)
needle_col == SDL_Color(255, 255, 255)

(* x >> n on each channel *)
dim(x, n) == SDL_Color(x.r \div 2^n, x.g \div 2^n, x.b \div 2^n)

(* the C remainder takes the sign of the dividend *)
CRem(a, b) == IF a >= 0 THEN a % b ELSE -((-a) % b)

(* the sample stored at index sp; the track holds none outside its length *)
track_get_ppm(tr, sp) == tr.ppm[sp]

track_get_overview(tr, sp) == tr.overview[sp]

track_is_importing(tr) == tr.importing

(* A column as drawn: the sample index worked out for it, whether a sample *)
(* was fetched at that index, the height of the bar and the rows written.  *)
Column(sp, fetched, height, pixels) ==
    [sp |-> sp, fetched |-> fetched, height |-> height, pixels |-> pixels]

(* draw_overview: the columns c = 0 .. w - 1 of rect *)
draw_overview(r, tr, position) ==
    LET w == r.w
        h == r.h
        current_position ==
            IF tr.length # 0 THEN CDiv(position * w, tr.length) ELSE 0
        column(c) ==
            LET sp == CDiv(tr.length * c, w)
                fetched == sp < tr.length
                height == IF fetched THEN CDiv(track_get_overview(tr, sp) * h, 256) ELSE 0
                base == IF tr.length = 0 THEN <<background_col, 0>>
                        ELSE IF c = current_position \/ c = CDiv(w, 2)
                             THEN <<needle_col, 1>>
                        ELSE IF position > tr.length - tr.rate * METER_WARNING_TIME
                             THEN <<warn_col, 3>>
                        ELSE <<elapsed_col, 3>>
                col == IF track_is_importing(tr) THEN dim(base[1], 1) ELSE base[1]
                fade == IF c < current_position THEN 1 ELSE base[2]
                row(i) ==
                    LET n == h - i + 1
                    IN  IF n > CDiv(height + h, 2) THEN col
                        ELSE IF n > CDiv(h - height, 2) THEN dim(col, fade)
                        ELSE col
            IN  Column(sp, fetched, height, [i \in 1..h |-> row(i)])
    IN  [k \in 1..w |-> column(k - 1)]

(* draw_closeup: the columns c = 0 .. w - 1 of rect, around the playhead;  *)
(* a left shift by scale multiplies by 2^scale                             *)
draw_closeup(r, tr, position, scale, rev) ==
    LET w == r.w
        h == r.h
        column(c) ==
            LET sp == position - CRem(position, 2^scale) + (c - CDiv(w, 2)) * 2^scale
                fetched == sp < tr.length /\ sp > 0
                height == IF fetched THEN CDiv(track_get_ppm(tr, sp) * h, 256) ELSE 0
                col == IF c = CDiv(w, 2) THEN needle_col ELSE elapsed_col
                fade == IF c = CDiv(w, 2) THEN 1 ELSE 3
                row(i) ==
                    LET n == h - i + 1
                    IN  IF n > (IF rev THEN h - height ELSE height)
                        THEN dim(col, IF rev THEN 0 ELSE fade)
                        ELSE dim(col, IF rev THEN fade ELSE 0)
            IN  Column(sp, fetched, height, [i \in 1..h |-> row(i)])
    IN  [k \in 1..w |-> column(k - 1)]

(* The samples of a track: silence, full scale, or the two in turn *)
Amplitudes == { "silent", "loud", "pulse" }

Amplitude(a, sp) ==
    IF a = "silent" THEN 0
    ELSE IF a = "loud" THEN 255
    ELSE IF sp % 2 = 0 THEN 255 ELSE 0

(* Tracks: empty, a few samples long, or longer than the warning time *)
TrackLengths == (0..MaxLength) \cup { METER_WARNING_TIME + MaxLength }

Tracks ==
    { [length |-> n, rate |-> 1, importing |-> imp,
       ppm |-> [sp \in 0..(n - 1) |-> Amplitude(a, sp)],
       overview |-> [sp \in 0..(n - 1) |-> Amplitude(o, sp)]] :
        n \in TrackLengths, imp \in BOOLEAN, a \in Amplitudes, o \in Amplitudes }

(* the rectangle of a deck: the closeups two rows high, the overview one *)
MeterRects == { rect(0, 0, w, 5) : w \in 1..MaxMeterWidth }

(* draw_deck is about to call draw_meters *)
InitMeter ==
    /\ InitRest
    /\ geometry \in Geometries
    /\ start = Started
    /\ meter \in { [NoMeter EXCEPT !.pc = "draw_meters", !.r = r, !.tr = tr,
                                   !.position = position, !.scale = scale] :
                     r \in MeterRects, tr \in Tracks,
                     position \in (-1)..(MaxLength + 1), scale \in 0..MaxScale }

(* draw_meters(surface, rect, t, position, meter_scale) *)
DrawMeters ==
    /\ ~Aborted
    /\ meter.pc = "draw_meters"
    /\ LET cs == draw_meters(meter.r)
       IN  meter' = [meter EXCEPT
               !.pc = "drawn",
               !.closeup_upper =
                   draw_closeup(cs[1].r, meter.tr, meter.position, meter.scale, FALSE),
               !.overview = draw_overview(cs[2].r, meter.tr, meter.position),
               !.closeup_bottom =
                   draw_closeup(cs[3].r, meter.tr, meter.position, meter.scale, TRUE)]
    /\ UNCHANGED <<queue, envVars, tick_pc, stop_pc, osc_pc, osc_msg, osc_trace,
                   geometry, start, osc, inputs, messages>>

NextMeter == DrawMeters

SpecMeter == InitMeter /\ [][NextMeter]_vars

-----------------------------------------------------------------------------
(* add_deck (osc.c): the methods of a deck are registered one by one under *)
(* a path built in char path[PATH_MAX_LEN].                                *)

PATH_MAX_LEN == 20

(* a NULL typespec: the method takes any arguments *)
NULL == "NULL"

(* the set_handler calls of add_deck in their order: tail of the path,     *)
(* typespec and handler                                                    *)
Methods ==
    << <<"bpm/get", "s", "handler_bpm_get">>,
       <<"bpm/set", "d", "handler_bpm_set">>,
       <<"clone", "i", "handler_clone">>,
       <<"connect", NULL, "handler_connect">>,
       <<"load", "s", "handler_load">>,
       <<"cue", "i", "handler_cue">>,
       <<"cue/go", "i", "handler_cue_go">>,
       <<"cue/set", "i", "handler_cue_set">>,
       <<"cue/set", "id", "handler_cue_set">>,
       <<"cue/set", NULL, "handler_cue_set_many">>,
       <<"cue/unset", "i", "handler_cue_unset">>,
       <<"pitch", "d", "handler_pitch">>,
       <<"play", NULL, "handler_play">>,
       <<"position", "d", "handler_position_set">>,
       <<"position/get", "s", "handler_position_get">>,
       <<"position/set", "d", "handler_position_set">>,
       <<"recue", NULL, "handler_recue">>,
       <<"seek", "d", "handler_position_rel">> >>

(* a method as lo_server_thread_add_method keeps it *)
Method(path, typespec, h, user_data) ==
    [path |-> path, typespec |-> typespec, handler |-> h, user_data |-> user_data]

(* snprintf(path, size, "/deck%d/", n): at most size - 1 characters are    *)
(* written and the length of the whole text is returned                    *)
snprintf(size, n) ==
    LET text == "/deck" \o ToString(n) \o "/"
    IN  [str |-> IF Len(text) < size THEN text ELSE SubSeq(text, 1, size - 1),
         ret |-> Len(text)]

(* what follows an array of characters that holds no terminator: nothing,  *)
(* when the next byte in memory happens to be zero, or other bytes         *)
Overrun == { "", "?" }

(* strncpy(pathtail, tail, len) and the string that path then is: a tail   *)
(* of len characters or more is copied without its terminator, and path    *)
(* runs on into the memory behind the array                                *)
strncpy(path, tail, len) ==
    IF Len(tail) < len THEN { path \o tail }
    ELSE { path \o SubSeq(tail, 1, len) \o after : after \in Overrun }

(* add_deck up to the first set_handler: the prefix of the paths *)
AddDeckEnter ==
    /\ ~Aborted
    /\ osc.pc = "idle"
    /\ osc.calls < MaxAdded
    /\ LET p == snprintf(PATH_MAX_LEN, osc.ndeck + 1)
       IN  osc' = [osc EXCEPT !.pc = "set_handler", !.path = p.str,
                              !.len = PATH_MAX_LEN - p.ret, !.i = 1,
                              !.deck = osc.calls, !.entry = osc.ndeck,
                              !.calls = osc.calls + 1]
    /\ UNCHANGED <<queue, envVars, tick_pc, stop_pc, osc_pc, osc_msg, osc_trace,
                   geometry, start, meter, inputs, messages>>

(* strncpy(pathtail, ...); if (set_handler(osc, path, typespec, handler,   *)
(* deck)) return -1;  lo_server_thread_add_method adds the method or fails *)
AddDeckSetHandler ==
    /\ ~Aborted
    /\ osc.pc = "set_handler"
    /\ \/ \E path \in strncpy(osc.path, Methods[osc.i][1], osc.len) :
             osc' = [osc EXCEPT
                        !.lo = Append(osc.lo, Method(path, Methods[osc.i][2],
                                                     Methods[osc.i][3], osc.deck)),
                        !.i = osc.i + 1,
                        !.pc = IF osc.i = Len(Methods) THEN "count" ELSE "set_handler"]
       \/ /\ osc.failures < MaxFailures
          /\ osc' = [osc EXCEPT !.pc = "idle", !.ret = -1,
                                !.failures = osc.failures + 1]
    /\ UNCHANGED <<queue, envVars, tick_pc, stop_pc, osc_pc, osc_msg, osc_trace,
                   geometry, start, meter, inputs, messages>>

(* osc->ndeck += 1; return 0; *)
AddDeckReturn ==
    /\ ~Aborted
    /\ osc.pc = "count"
    /\ osc' = [osc EXCEPT !.pc = "idle", !.ret = 0, !.ndeck = osc.ndeck + 1,
                          !.bound = Append(osc.bound, osc.deck)]
    /\ UNCHANGED <<queue, envVars, tick_pc, stop_pc, osc_pc, osc_msg, osc_trace,
                   geometry, start, meter, inputs, messages>>

NextAddDeck ==
    \/ AddDeckEnter
    \/ AddDeckSetHandler
    \/ AddDeckReturn

SpecAddDeck == Init /\ [][NextAddDeck]_vars

-----------------------------------------------------------------------------
(* Properties *)

(* the part of an iteration between rig_lock() and the next rig_unlock() *)
InIteration == pc \in {"handle", "layout", "paint", "publish"}

Returned == pc \in {"done", "failed"}

Drawn(region) ==
    \E i \in 1..Len(calls) : calls[i].region = region /\ calls[i].op # "SDL_UpdateRect"

Published(region) ==
    \E i \in 1..Len(calls) : calls[i].region = region /\ calls[i].op = "SDL_UpdateRect"

(* C1: an OSC handler runs only while the OSC thread holds the gate, so    *)
(* a handler that is in progress while the interface thread is inside the  *)
(* handle, layout, paint and publish section of an iteration would have to *)
(* hold the gate the interface thread holds: there is no such moment.      *)
C1_HandlersUnderGate ==
    (osc_pc = "handler" /\ InIteration) => gate = "osc"

(* C2: the interface thread holds the gate from the handling of the        *)
(* dequeued event until the dirty regions are painted and published, and   *)
(* does not hold it while it is blocked in SDL_WaitEvent.                  *)
C2_GateHeldThroughIteration ==
    /\ InIteration => gate = "render"
    /\ pc = "unlock" => gate = "render"
    /\ pc = "wait" => gate # "render"

(* an iteration has painted and published, and the thread waits again *)
C2_Witness ==
    /\ pc = "wait"
    /\ gate = "none"
    /\ Published("decks")

(* C3: once interface_stop has injected the quit sentinel, the running     *)
(* loop returns only by dequeuing the sentinel, and it has released the    *)
(* gate when it returns.                                                   *)
C3_StopEndsLoopCleanly ==
    [][(stop_pc = "join" /\ Serving /\ pc' \in {"done", "failed"})
          => (pc = "finish" /\ event = UserEvent(EVENT_QUIT) /\ gate' = "none")]_vars

(* C4: at most one timer tick is pending in the queue *)
C4_AtMostOneTick == Pending(queue, EVENT_TICKER) <= 1

(* a status event pushed between the peek and the push of ticker: the     *)
(* tick is queued behind it                                                *)
C4_Witness ==
    /\ Len(queue) = 2
    /\ queue[1] = UserEvent(EVENT_STATUS)
    /\ queue[2] = UserEvent(EVENT_TICKER)

(* C5: of each kind of user event (tick, status change, quit) at most one  *)
(* is pending in the queue.                                                *)
C5_OnePendingPerKind ==
    Serving =>
        \A code \in {EVENT_TICKER, EVENT_STATUS, EVENT_QUIT} : Pending(queue, code) <= 1

AreaAboveStatus == split_from_bottom(rworkspace, STATUS_HEIGHT, SPACER).a

Inside(r, sf) ==
    /\ r.x >= 0
    /\ r.y >= 0
    /\ r.x + r.w <= sf[1]
    /\ r.y + r.h <= sf[2]

(* C6: a dirty flag goes from true to false only after its region has been *)
(* painted in the same iteration.                                          *)
C6_ClearedOnlyAfterPaint ==
    [][/\ (library_update /\ ~library_update') => Drawn("library")
       /\ (status_update /\ ~status_update') => Drawn("status")
       /\ (decks_update /\ ~decks_update') => Drawn("decks")]_vars

(* C6 as amended: a dirty flag goes from true to false only after its      *)
(* region has been painted in the same iteration and together with the     *)
(* publication of its rectangle, or in the layout step that finds the      *)
(* region below its minimum size.                                          *)
C6_ClearedAfterPaintOrTooSmall ==
    [][/\ (library_update /\ ~library_update') =>
            \/ Drawn("library") /\ ~Published("library") /\ Published("library")'
            \/ pc = "layout" /\ library_too_small(rlibrary') /\ ~Drawn("library")'
       /\ (status_update /\ ~status_update') =>
            \/ Drawn("status") /\ ~Published("status") /\ Published("status")'
            \/ pc = "layout" /\ status_too_small(AreaAboveStatus) /\ ~Drawn("status")'
       /\ (decks_update /\ ~decks_update') =>
            \/ Drawn("decks") /\ ~Published("decks") /\ Published("decks")'
            \/ pc = "layout" /\ decks_too_small(rplayers') /\ ~Drawn("decks")']_vars

(* a flag was cleared by the publish step, another by the layout step *)
C6_Witness ==
    /\ pc = "unlock"
    /\ event.type = "SDL_VIDEORESIZE"
    /\ Drawn("decks") /\ Published("decks") /\ ~decks_update
    /\ library_too_small(rlibrary) /\ ~Drawn("library") /\ ~library_update

(* C7: a region that the layout finds below its minimum size has its flag  *)
(* forced false and is neither painted nor published in that iteration,    *)
(* and the regions that fit are painted and published all the same.        *)
C7_TooSmallRegionSkipped ==
    /\ pc \in {"paint", "publish"} =>
          /\ status_too_small(AreaAboveStatus) => ~status_update
          /\ library_too_small(rlibrary) => ~library_update
          /\ decks_too_small(rplayers) => ~decks_update
    /\ pc \in {"paint", "publish", "unlock"} =>
          /\ status_too_small(AreaAboveStatus) => ~Drawn("status") /\ ~Published("status")
          /\ library_too_small(rlibrary) => ~Drawn("library") /\ ~Published("library")
          /\ decks_too_small(rplayers) => ~Drawn("decks") /\ ~Published("decks")
    /\ (pc = "unlock" /\ event.type = "SDL_VIDEORESIZE") =>
          /\ ~status_too_small(AreaAboveStatus) => Drawn("status") /\ Published("status")
          /\ ~library_too_small(rlibrary) => Drawn("library") /\ Published("library")
          /\ ~decks_too_small(rplayers) => Drawn("decks") /\ Published("decks")

(* after a resize to a window without room for library and status, the    *)
(* decks alone were painted and published                                  *)
C7_Witness ==
    /\ pc = "unlock"
    /\ event.type = "SDL_VIDEORESIZE"
    /\ status_too_small(AreaAboveStatus)
    /\ library_too_small(rlibrary)
    /\ Published("decks")
    /\ ~Published("status")
    /\ ~Published("library")

(* the pixels a meter writes into r are inside the surface: it writes the  *)
(* columns x .. x + w - 1 from row y down, h rows, and does not stop when h *)
(* is negative.                                                            *)
WritesInside(r, sf) == r.w <= 0 \/ (r.h >= 0 /\ (r.h = 0 \/ Inside(r, sf)))

C9_ResizeInvalidatesAll ==
    /\ [][(pc = "handle" /\ event.type = "SDL_VIDEORESIZE" /\ pc' = "layout") =>
            /\ library_update' /\ decks_update' /\ status_update'
            /\ surface' = <<event.a, event.b>>
            /\ rworkspace' = shrink(rect(0, 0, event.a, event.b), BORDER)]_vars
    /\ [](pc \in {"paint", "publish"} =>
            /\ rworkspace = shrink(rect(0, 0, surface[1], surface[2]), BORDER)
            /\ LET l == layout(rworkspace, TRUE, TRUE, TRUE)
               IN  /\ rstatus = l.rstatus
                   /\ rlibrary = l.rlibrary
                   /\ rplayers = l.rplayers)

(* a resize to a window other than the first has been handled and laid out *)
C9_Witness ==
    /\ pc = "paint"
    /\ event.type = "SDL_VIDEORESIZE"
    /\ surface # geometry
    /\ surface = <<event.a, event.b>>

(* C10: handling a status-changed event sets the status flag and leaves    *)
(* the other flags, the zoom scale, the selector and the decks as they are. *)
C10_StatusMarksOnlyStatus ==
    [][(pc = "handle" /\ event = UserEvent(EVENT_STATUS) /\ pc' # "handle") =>
          /\ pc' = "layout"
          /\ status_update'
          /\ UNCHANGED <<library_update, decks_update, meter_scale, selector, deck>>]_vars

(* a status event has been handled with the other two flags down *)
C10_Witness ==
    /\ pc = "layout"
    /\ event = UserEvent(EVENT_STATUS)
    /\ status_update
    /\ ~decks_update
    /\ ~library_update

(* C11: handling a selection-changing key marks the decks region and the   *)
(* library region dirty.                                                   *)
C11_SelectionKeyMarksDecksAndLibrary ==
    [][(pc = "handle" /\ event.type = "SDL_KEYDOWN" /\ IsSelectorKey(event.a)
          /\ pc' = "layout")
         => (library_update' /\ decks_update')]_vars

(* C11 as amended: handling a selection-changing key marks the library     *)
(* region dirty and leaves the flag of the decks region as it was.         *)
C11_SelectionKeyMarksLibrary ==
    [][(pc = "handle" /\ event.type = "SDL_KEYDOWN" /\ IsSelectorKey(event.a)
          /\ pc' = "layout")
         => (library_update' /\ decks_update' = decks_update)]_vars

(* a cursor key was handled after the first paint: library dirty, decks not *)
C11_Witness ==
    /\ pc = "layout"
    /\ event = Event("SDL_KEYDOWN", SDLK_UP, KMOD_NONE)
    /\ library_update
    /\ ~decks_update

Regions == {"library", "status", "decks"}

IsDraw(c) == c.op # "SDL_UpdateRect"

RegionOrder(region) ==
    IF region = "library" THEN 1 ELSE IF region = "status" THEN 2 ELSE 3

Flag(region) ==
    IF region = "library" THEN library_update
    ELSE IF region = "status" THEN status_update
    ELSE decks_update

(* C12: a region painted in an iteration is published before the next      *)
(* region is painted: between the paint of one region and the paint of     *)
(* another lies the SDL_UpdateRect of the first.                           *)
C12_PublishedBeforeNextPaint ==
    \A i, j \in 1..Len(calls) :
        (i < j /\ IsDraw(calls[i]) /\ IsDraw(calls[j])
           /\ calls[i].region # calls[j].region)
        => \E k \in (i + 1)..(j - 1) :
              ~IsDraw(calls[k]) /\ calls[k].region = calls[i].region

(* C12 as amended: the still-dirty regions are painted in the order        *)
(* library, status, decks; after the last paint the painted regions are    *)
(* published in the same order, each with its flag cleared, and all of     *)
(* this before the gate is released.                                       *)
C12_PaintAllThenPublish ==
    /\ \A i, j \in 1..Len(calls) :
          /\ (IsDraw(calls[i]) /\ ~IsDraw(calls[j])) => i < j
          /\ (i < j /\ IsDraw(calls[i]) = IsDraw(calls[j]))
                => RegionOrder(calls[i].region) <= RegionOrder(calls[j].region)
    /\ pc = "publish" =>
          \A region \in Regions :
              (Flag(region) <=> Drawn(region)) /\ ~Published(region)
    /\ pc = "unlock" =>
          \A region \in Regions :
              /\ Drawn(region) <=> Published(region)
              /\ Published(region) => ~Flag(region)
    /\ pc \in {"publish", "unlock"} => gate = "render"

(* an iteration has painted the three regions and then published them *)
C12_Witness ==
    /\ pc = "unlock"
    /\ \A region \in Regions : Drawn(region) /\ Published(region)

(* the keys whose handling changes what the decks region shows: a zoom    *)
(* key, or a function key of a configured deck with load, recue, timecode  *)
(* toggle or, with shift, clone                                            *)
IsZoomKey(key) == key \in {SDLK_EQUALS, SDLK_PLUS, SDLK_MINUS}

IsDeckKey(key, mod) ==
    /\ key >= SDLK_F1 /\ key <= SDLK_F12
    /\ (key - SDLK_F1) \div 4 < ndeck
    /\ IF HasShift(mod) THEN (key - SDLK_F1) % 4 < ndeck
       ELSE \/ (key - SDLK_F1) % 4 \in {FUNC_LOAD, FUNC_RECUE}
            \/ (key - SDLK_F1) % 4 = FUNC_TIMECODE /\ ~HasCtrl(mod)

KeyMutatesDisplay ==
    /\ event.type = "SDL_KEYDOWN"
    /\ IsZoomKey(event.a) \/ IsDeckKey(event.a, event.b)

AllDirty == library_update /\ status_update /\ decks_update

(* from the start of interface_main up to the handling of an event *)
BeforeLayout == pc \in {"first_lock", "unlock", "wait", "lock", "handle"}

TooSmall(region) ==
    IF region = "library" THEN library_too_small(rlibrary)
    ELSE IF region = "status" THEN status_too_small(AreaAboveStatus)
    ELSE decks_too_small(rplayers)

(* the meters of every deck are among the calls, each on a rectangle with  *)
(* pixels in it                                                            *)
EveryDeckDrawn ==
    LET meters == {i \in 1..Len(calls) : calls[i].op \in {"draw_closeup", "draw_overview"}}
    IN  /\ Cardinality(meters) = 3 * ndeck
        /\ \A i \in meters : calls[i].r.w > 0 /\ calls[i].r.h > 0

(* C14: every dirty flag is true when the loop starts and stays true until *)
(* the first layout, which keeps the flag of every region that meets its   *)
(* minimum size; the paint step paints every region whose flag is set, and *)
(* in a window of 800x600 it paints the meters of every deck.              *)
C14_InitialFullPaint ==
    /\ [](pc = "first_lock" => AllDirty)
    /\ [][(BeforeLayout /\ AllDirty /\ pc' \in {"unlock", "wait", "lock", "handle", "layout"})
            => AllDirty']_vars
    /\ [][(pc = "layout" /\ AllDirty /\ pc' = "paint")
            => \A region \in Regions : Flag(region)' <=> ~TooSmall(region)']_vars
    /\ [][(pc = "paint" /\ pc' = "publish")
            => /\ \A region \in Regions : Flag(region) => Drawn(region)'
               /\ (decks_update /\ surface = <<800, 600>>) => EveryDeckDrawn']_vars

(* the first iteration, begun by a timer tick, has painted all three       *)
(* regions of the 800x600 window and the meters of every deck              *)
C14_Witness ==
    /\ pc = "publish"
    /\ event = UserEvent(EVENT_TICKER)
    /\ surface = <<800, 600>>
    /\ \A region \in Regions : Drawn(region)
    /\ EveryDeckDrawn

(* C20: the zoom scale stays within 0 .. MAX_METER_SCALE; a key that zooms *)
(* in leaves a scale of 0 at 0, a key that zooms out leaves a scale of     *)
(* MAX_METER_SCALE there, any other press of a zoom key changes the scale  *)
(* by exactly one, and no other key changes it.                            *)
C20_ZoomClamped ==
    /\ [](meter_scale \in 0..MAX_METER_SCALE)
    /\ [][(pc = "handle" /\ event.type = "SDL_KEYDOWN" /\ pc' = "layout") =>
            meter_scale' =
                IF event.a \in {SDLK_EQUALS, SDLK_PLUS}
                THEN (IF meter_scale = 0 THEN 0 ELSE meter_scale - 1)
                ELSE IF event.a = SDLK_MINUS
                THEN (IF meter_scale = MAX_METER_SCALE THEN MAX_METER_SCALE
                      ELSE meter_scale + 1)
                ELSE meter_scale]_vars
    /\ [][meter_scale' # meter_scale => (pc = "handle" /\ event.type = "SDL_KEYDOWN")]_vars

(* nine presses that zoom in from the default of 8: the ninth found the    *)
(* scale at 0 and left it there                                            *)
C20_Witness ==
    /\ pc = "layout"
    /\ inputs = DEFAULT_METER_SCALE + 1
    /\ queue = << >>
    /\ event.a \in {SDLK_EQUALS, SDLK_PLUS}
    /\ meter_scale = 0

(* the player_seek_to calls among the calls of a handler *)
Seeks(made) == SelectSeq(made, LAMBDA c : c.op = "player_seek_to")

(* the message writes cue point n (1-based) of deck d *)
WritesCue(m, d, n) ==
    m.op \in {"cue/set", "cue/unset"} /\ m.d = d /\ m.args[1] = n

(* handler j of the trace ran cue/go on a cue point in range, and handler  *)
(* i the last message before it that wrote that cue point                  *)
LastWriteBeforeGo(i, j) ==
    LET g == osc_trace[j].msg
    IN  /\ i < j
        /\ g.op = "cue/go"
        /\ g.args[1] - 1 \in 0..(MAX_CUES - 1)
        /\ WritesCue(osc_trace[i].msg, g.d, g.args[1])
        /\ \A k \in (i + 1)..(j - 1) : ~WritesCue(osc_trace[k].msg, g.d, g.args[1])

CueOps == {"cue", "cue/go", "cue/set", "cue/unset"}

(* C16: a cue message whose 0-based label is outside 0 .. MAX_CUES - 1 is  *)
(* ignored: its handler makes no call to the cue points, the deck or the   *)
(* player; and every label a handler passes on is inside that range.       *)
C16_LabelOutOfRangeIgnored ==
    \A i \in 1..Len(osc_trace) :
        LET m == osc_trace[i].msg
            made == osc_trace[i].calls
        IN  m.op \in CueOps =>
              /\ m.args[1] - 1 \notin 0..(MAX_CUES - 1) => made = << >>
              /\ \A k \in 1..Len(made) :
                    made[k].op # "player_seek_to" => made[k].a \in 0..(MAX_CUES - 1)

(* C17: cue/set with the label n alone stores the playhead of the deck,    *)
(* its elapsed position, at cue point n - 1, and cue/set with a label and  *)
(* a position stores that position there.                                  *)
C17_CueSetStoresPlayhead ==
    [][(/\ osc_pc = "handler"
        /\ osc_msg.op = "cue/set"
        /\ osc_msg.args[1] - 1 \in 0..(MAX_CUES - 1)
        /\ osc_pc' = "recv") =>
            Double(deck'[osc_msg.d].cues[osc_msg.args[1] - 1], 1) =
                IF Len(osc_msg.args) = 2 THEN Double(osc_msg.args[2], 1)
                ELSE player_get_elapsed(deck, osc_msg.d)]_vars

(* the handlers before handler j of the trace that ran bpm/set on deck d *)
TempoSets(j, d) ==
    { i \in 1..(j - 1) : osc_trace[i].msg.op = "bpm/set" /\ osc_trace[i].msg.d = d }

Latest(S) == CHOOSE i \in S : \A k \in S : k <= i

(* C18: bpm/get after bpm/set of b on the same deck makes one reply, with  *)
(* b (the interval between them being rate * 60 / b); it makes no reply    *)
(* when the beat interval is zero: before any bpm/set on the deck, and     *)
(* after a bpm/set whose interval comes out zero.                          *)
C18_TempoRoundTrip ==
    /\ [](\A j \in 1..Len(osc_trace) :
            LET g == osc_trace[j].msg
            IN  g.op = "bpm/get" =>
                  IF TempoSets(j, g.d) = {} THEN osc_trace[j].calls = << >>
                  ELSE LET b == osc_trace[Latest(TempoSets(j, g.d))].msg.args[1]
                       IN  IF b[2] = 0 THEN osc_trace[j].calls = << >>
                           ELSE osc_trace[j].calls = << OscCall("reply", g.d, b) >>)
    /\ [][(osc_pc = "handler" /\ osc_msg.op = "bpm/get" /\ osc_pc' = "recv") =>
            /\ deck' = deck
            /\ DoubleIsZero(deck[osc_msg.d].beat_interval) =>
                  osc_trace'[Len(osc_trace')].calls = << >>]_vars

(* a fractional tempo was set on a deck after another tempo, and bpm/get   *)
(* replied with it                                                         *)
C18_Witness ==
    /\ Len(osc_trace) = 3
    /\ osc_trace[1].msg = Message("bpm/set", 0, << <<120, 1>> >>)
    /\ osc_trace[2].msg = Message("bpm/set", 0, << <<175, 2>> >>)
    /\ osc_trace[3].msg = Message("bpm/get", 0, << >>)
    /\ osc_trace[3].calls = << OscCall("reply", 0, <<175, 2>>) >>
    /\ deck[0].beat_interval = <<30240, 1>>

(* the fourth function key of a deck the program has, without shift: the   *)
(* key of action 3                                                         *)
IsTapKey(key, mod) ==
    /\ key >= SDLK_F1 /\ key <= SDLK_F12
    /\ (key - SDLK_F1) \div 4 < ndeck
    /\ (key - SDLK_F1) % 4 = 3
    /\ ~HasShift(mod)

(* C19: a tempo tap on a deck is either kept as the marker of the deck's   *)
(* first tap or, being the second, sets the beat interval of the deck and  *)
(* clears the marker: handling the key changes the state of that deck.     *)
C19_TapChangesDeck ==
    [][(pc = "handle" /\ event.type = "SDL_KEYDOWN" /\ IsTapKey(event.a, event.b)
          /\ pc' = "layout")
         => deck'[(event.a - SDLK_F1) \div 4] # deck[(event.a - SDLK_F1) \div 4]]_vars

(* the loop has handled F1 without shift, the load key of deck 0 *)
LoadKeyHandled ==
    /\ pc = "handle"
    /\ event.type = "SDL_KEYDOWN"
    /\ event.a = SDLK_F1
    /\ ~HasShift(event.b)
    /\ pc' = "layout"

FlagsUnchanged ==
    UNCHANGED <<library_update, status_update, decks_update>>

FunctionKeyHandled ==
    /\ pc = "handle"
    /\ event.type = "SDL_KEYDOWN"
    /\ event.a >= SDLK_F1 /\ event.a <= SDLK_F12
    /\ pc' = "layout"

(* deck d has become a clone of deck from: its record and its playhead *)
ClonedFrom(d, from) ==
    /\ deck'[d].record = deck[from].record
    /\ player_get_elapsed(deck', d) = player_get_elapsed(deck, from)

OtherDecksUnchanged(d) == \A e \in Decks \ {d} : deck'[e] = deck[e]

(* C22: a function key acts on deck keyIndex / 4, and with shift clones    *)
(* from deck keyIndex mod 4, only when these are decks of the program, and *)
(* /deckN/clone i clones from deck i - 1 only when that is one; a key or a *)
(* clone message naming a deck outside 0 .. ndeck - 1 changes no deck.     *)
C22_DeckIndexInRange ==
    /\ [](\A j \in 1..Len(osc_trace) : \A k \in 1..Len(osc_trace[j].calls) :
            osc_trace[j].calls[k].op = "deck_clone" =>
                osc_trace[j].calls[k].a \in Decks)
    /\ [][(osc_pc = "handler" /\ osc_msg.op = "clone" /\ osc_pc' = "recv") =>
            IF osc_msg.args[1] - 1 \in Decks
            THEN ClonedFrom(osc_msg.d, osc_msg.args[1] - 1) /\ OtherDecksUnchanged(osc_msg.d)
            ELSE deck' = deck]_vars
    /\ [][FunctionKeyHandled =>
            LET d == (event.a - SDLK_F1) \div 4
                func == (event.a - SDLK_F1) % 4
            IN  IF d \notin Decks THEN deck' = deck
                ELSE IF ~HasShift(event.b) THEN OtherDecksUnchanged(d)
                ELSE IF func \in Decks THEN ClonedFrom(d, func) /\ OtherDecksUnchanged(d)
                ELSE deck' = deck]_vars

(* /deck1/clone with the number of the last deck has moved the playhead of *)
(* deck 0 to that of the last deck, and shift with the fourth function key *)
(* of deck 0, which names a deck the program does not have, left it there  *)
C22_Witness ==
    /\ Len(osc_trace) = 1
    /\ osc_trace[1].msg = Message("clone", 0, << ndeck >>)
    /\ osc_trace[1].calls = << OscCall("deck_clone", 0, ndeck - 1) >>
    /\ deck[0].position = 0
    /\ player_get_elapsed(deck, 0) = Double(MaxPosition, 1)
    /\ pc = "layout"
    /\ event = Event("SDL_KEYDOWN", SDLK_F1 + 3, KMOD_LSHIFT)

(* C23: /deckN/play on a deck under timecode control takes the deck out of *)
(* timecode control and sets the pitch to 1; on a deck not under timecode  *)
(* control it makes a pitch of 0 into 1 and any other pitch into 0 and     *)
(* leaves timecode control off; the record, the cue points, the position   *)
(* and everything else of the deck, and the other decks, stay as they are. *)
C23_PlayTogglesPitch ==
    [][(osc_pc = "handler" /\ osc_msg.op = "play" /\ osc_pc' = "recv") =>
         LET d == osc_msg.d
         IN  /\ ~deck'[d].timecode_control
             /\ deck'[d].pitch \in {0, 1}
             /\ deck[d].timecode_control => deck'[d].pitch = 1
             /\ ~deck[d].timecode_control =>
                   deck'[d].pitch = (IF deck[d].pitch = 0 THEN 1 ELSE 0)
             /\ deck' = [deck EXCEPT ![d].timecode_control = deck'[d].timecode_control,
                                     ![d].pitch = deck'[d].pitch]]_vars

(* a deck that has moved was started by play, which took it out of         *)
(* timecode control, and stopped by the next play                          *)
C23_Witness ==
    /\ Len(osc_trace) = 2
    /\ osc_trace[1].msg = Message("play", 0, << >>)
    /\ osc_trace[2].msg = Message("play", 0, << >>)
    /\ deck[0].position = MaxPosition
    /\ ~deck[0].timecode_control
    /\ deck[0].pitch = 0

(* the length of the track of deck d in seconds *)
Duration(dk, d) == DoubleDiv(Double(dk[d].length, 1), Double(dk[d].rate, 1))

(* C24: /deckN/seek f makes one seek: to 0 for every f below 0,            *)
(* to the duration of the track for every f above 1, to f times the        *)
(* duration for f from 0 to 1, and never to anything that is not from 0 to *)
(* the duration.                                                           *)
C24_SeekClamped ==
    [][(osc_pc = "handler" /\ osc_msg.op = "seek" /\ osc_pc' = "recv") =>
         LET f == osc_msg.args[1]
             dur == Duration(deck, osc_msg.d)
             made == osc_trace'[Len(osc_trace')].calls
         IN  /\ Len(made) = 1
             /\ made[1].op = "player_seek_to"
             /\ DoubleLess(f, <<0, 1>>) => made[1].a = <<0, 1>>
             /\ DoubleLess(<<1, 1>>, f) => made[1].a = dur
             /\ (~DoubleLess(f, <<0, 1>>) /\ ~DoubleLess(<<1, 1>>, f) /\ ~DoubleIsNaN(f)) =>
                   made[1].a = DoubleMul(f, dur)
             /\ ~DoubleIsNaN(made[1].a)
             /\ ~DoubleLess(made[1].a, <<0, 1>>)
             /\ ~DoubleLess(dur, made[1].a)]_vars

(* the arguments of the message that are numbers, in their order *)
Numbers(args) == SelectSeq(args, can_coerce)

(* C25: /deckN/cue/set with many arguments writes the first MAX_CUES of    *)
(* its numbers, in their order, to the cue points 0, 1, ... of the deck,   *)
(* one call each and none with a label of MAX_CUES or more; it leaves the  *)
(* other cue points, the rest of the deck and the other decks as they are. *)
C25_BulkCueSetBounded ==
    [][(osc_pc = "handler" /\ osc_msg.op = "cue/set" /\ Len(osc_msg.args) > 2
          /\ osc_pc' = "recv") =>
         LET d == osc_msg.d
             nums == Numbers(osc_msg.args)
             n == IF Len(nums) < MAX_CUES THEN Len(nums) ELSE MAX_CUES
             made == osc_trace'[Len(osc_trace')].calls
         IN  /\ \A l \in 0..(MAX_CUES - 1) :
                   deck'[d].cues[l] = IF l < n THEN nums[l + 1].v ELSE deck[d].cues[l]
             /\ DOMAIN deck'[d].cues = 0..(MAX_CUES - 1)
             /\ made = [k \in 1..n |-> OscCall("cues_set", d, k - 1)]
             /\ deck' = [deck EXCEPT ![d].cues = deck'[d].cues]]_vars

(* a message with a string and more numbers than there are cue points      *)
(* came after one that had set them all: every cue point is written again, *)
(* the last with the number at place MAX_CUES + 1                          *)
C25_Witness ==
    /\ Len(osc_trace) = 2
    /\ osc_trace[1].msg = Message("cue/set", 0, ManyArgs(MAX_CUES, 50, 0))
    /\ osc_trace[2].msg = Message("cue/set", 0, ManyArgs(MAX_CUES + 2, 0, 2))
    /\ Len(osc_trace[2].calls) = MAX_CUES
    /\ deck[0].cues[0] = 1
    /\ deck[0].cues[1] = 3
    /\ deck[0].cues[MAX_CUES - 1] = MAX_CUES + 1

KnownTypes == {"SDL_QUIT", "SDL_VIDEORESIZE", "SDL_USEREVENT", "SDL_KEYDOWN"}

KnownCodes == {EVENT_TICKER, EVENT_QUIT, EVENT_STATUS}

UnknownCode(e) == e.type = "SDL_USEREVENT" /\ e.a \notin KnownCodes

(* C26: when the loop handles an event of a kind it does not know, an SDL  *)
(* event type without a case or a user event with an unknown code, the     *)
(* process aborts; the loop does not go on to layout and paint.            *)
C26_UnknownEventAborts ==
    [][(pc = "handle" /\ (event.type \notin KnownTypes \/ UnknownCode(event))
          /\ pc' # pc)
         => pc' = "aborted"]_vars

(* C26 as amended: a user event with an unknown code aborts the process,   *)
(* and nothing happens after that; an SDL event of a type the loop has no  *)
(* case for is ignored: it changes no flag and no state, and the loop goes *)
(* on to layout and paint.                                                 *)
C26_UnknownCodeAborts ==
    /\ [][(pc = "handle" /\ UnknownCode(event) /\ pc' # pc) => pc' = "aborted"]_vars
    /\ [][pc = "aborted" => UNCHANGED vars]_vars
    /\ [][(pc = "handle" /\ event.type \notin KnownTypes /\ pc' # pc) =>
            /\ pc' = "layout"
            /\ FlagsUnchanged
            /\ UNCHANGED <<stateVars, queue, gate>>]_vars

(* the loop has handled a mouse event and gone round, and has aborted on   *)
(* the user event that came after it                                       *)
C26_Witness ==
    /\ pc = "aborted"
    /\ UnknownCode(event)
    /\ inputs = 2
    /\ queue = << >>
    /\ gate = "render"

(* t is a number: digits and nothing else *)
IsNumber(t) == Len(t) > 0 /\ \A i \in 1..Len(t) : IsDigit(t[i])

(* s is "<W>x<H>" *)
IsSize(s) ==
    \E i \in 1..Len(s) :
        s[i] = "x" /\ IsNumber(SubSeq(s, 1, i - 1)) /\ IsNumber(SubSeq(s, i + 1, Len(s)))

(* s is "<W>x<H>+<X>+<Y>" *)
IsSizeAndPlace(s) ==
    \E i, j, k \in 1..Len(s) :
        /\ i < j /\ j < k
        /\ s[i] = "x" /\ s[j] = "+" /\ s[k] = "+"
        /\ IsNumber(SubSeq(s, 1, i - 1))
        /\ IsNumber(SubSeq(s, i + 1, j - 1))
        /\ IsNumber(SubSeq(s, j + 1, k - 1))
        /\ IsNumber(SubSeq(s, k + 1, Len(s)))

(* the call that failed, or the geometry string, made interface_start      *)
(* return -1 and no thread was created                                     *)
StartRefused == start.pc = "returned" /\ start.ret = -1 /\ ~start.thread

IsInt(t) == IsNumber(t) \/ (Len(t) > 1 /\ t[1] = "+" /\ IsNumber(Tail(t)))

(* s begins with "<W>x<H>" *)
BeginsSize(s) ==
    \E i, e \in 1..Len(s) :
        s[i] = "x" /\ IsInt(SubSeq(s, 1, i - 1)) /\ IsInt(SubSeq(s, i + 1, e))

(* s begins with "<W>x<H>+<X>" *)
BeginsSizeAndX(s) ==
    \E i, j, e \in 1..Len(s) :
        /\ s[i] = "x" /\ s[j] = "+"
        /\ IsInt(SubSeq(s, 1, i - 1))
        /\ IsInt(SubSeq(s, i + 1, j - 1))
        /\ IsInt(SubSeq(s, j + 1, e))

(* s begins with "<W>x<H>+<X>+<Y>" *)
BeginsSizeAndPlace(s) ==
    \E i, j, k, e \in 1..Len(s) :
        /\ s[i] = "x" /\ s[j] = "+" /\ s[k] = "+"
        /\ IsInt(SubSeq(s, 1, i - 1))
        /\ IsInt(SubSeq(s, i + 1, j - 1))
        /\ IsInt(SubSeq(s, j + 1, k - 1))
        /\ IsInt(SubSeq(s, k + 1, e))

BadGeometry(s) ==
    /\ Len(s) > 0
    /\ ~BeginsSize(s) \/ (BeginsSizeAndX(s) /\ ~BeginsSizeAndPlace(s))

Strips == << meter.closeup_upper, meter.overview, meter.closeup_bottom >>

C28_EmptyTrackDrawsBackground ==
    meter.pc = "drawn" =>
        \A s \in 1..3 : \A c \in 1..Len(Strips[s]) :
            LET column == Strips[s][c]
            IN  /\ meter.tr.length = 0 =>
                      \A i \in 1..Len(column.pixels) : column.pixels[i] = background_col
                /\ column.sp \notin 0..(meter.tr.length - 1) =>
                      (~column.fetched /\ column.height = 0)


(* C29: the k-th successful add_deck has registered every method of        *)
(* add_deck under "/deck<k>/" with its typespec and handler, bound to the  *)
(* deck it was called with; the counter of decks stays as it was while     *)
(* the methods are registered and is one more after the last of them; a    *)
(* call in which a registration failed returns -1 with the counter as it   *)
(* was.                                                                    *)
Registered(k) ==
    LET prefix == "/deck" \o ToString(k) \o "/"
        methods == { osc.lo[m] : m \in 1..Len(osc.lo) }
    IN  \A i \in 1..Len(Methods) :
            Method(prefix \o Methods[i][1], Methods[i][2], Methods[i][3], osc.bound[k])
                \in methods

C29_DeckRegisteredAndCounted ==
    /\ osc.pc = "idle" => \A k \in 1..osc.ndeck : Registered(k)
    /\ osc.ndeck = Len(osc.bound)
    /\ osc.pc \in {"set_handler", "count"} => osc.ndeck = osc.entry
    /\ (osc.pc = "idle" /\ osc.calls > 0) =>
          \/ osc.ret = 0 /\ osc.ndeck = osc.entry + 1
          \/ osc.ret = -1 /\ osc.ndeck = osc.entry



(* C30: the interface thread takes and gives back the gate in turn,        *)
(* starting by taking it: where it is about to rig_unlock() it holds the   *)
(* gate (also after a failed wait for an event), where it is about to      *)
(* rig_lock() it does not, and where interface_main has returned, with 0   *)
(* or with -1 (rig_quit failed, the video mode could not be set), it does  *)
(* not hold the gate.                                                      *)
C30_GateTakenAndGivenBackInTurn ==
    /\ pc \in {"unlock", "finish"} => gate = "render"
    /\ pc \in {"first_lock", "lock"} => gate # "render"
    /\ pc \in {"done", "failed"} => gate # "render"



(* C31: whenever the loop waits for an event after an iteration, the       *)
(* library, status and decks flags are all false, and every region the     *)
(* iteration painted it also published: nothing is carried over.           *)
IterationCompleted == pc = "wait" /\ event.type # "none"

C31_NoRedrawCarriedOver ==
    IterationCompleted =>
        /\ ~library_update /\ ~status_update /\ ~decks_update
        /\ \A region \in {"library", "status", "decks"} :
              Drawn(region) <=> Published(region)

(* a resize has been handled: the decks were painted, published and their  *)
(* flag cleared, the library was too small and its flag cleared unpainted  *)
C31_Witness ==
    /\ IterationCompleted
    /\ event.type = "SDL_VIDEORESIZE"
    /\ Drawn("decks") /\ Published("decks")
    /\ library_too_small(rlibrary) /\ ~Drawn("library")
    /\ ~library_update /\ ~status_update /\ ~decks_update



(* C32: a firing of the timer goes on to push a tick only if its peek      *)
(* found no user event in the queue, be it a tick, a status change or the  *)
(* internal quit; with a status change or the quit alone in the queue the  *)
(* firing pushes nothing.                                                  *)
UserEventPending ==
    Pending(queue, EVENT_TICKER) + Pending(queue, EVENT_STATUS)
        + Pending(queue, EVENT_QUIT) > 0

C32_TickOnlyWithoutUserEvent ==
    [][(tick_pc = "idle" /\ tick_pc' = "push") => ~UserEventPending]_vars

(* the timer has fired before and its tick has been handled; now a status  *)
(* change alone is pending while the timer may fire                        *)
C32_Witness ==
    /\ timer
    /\ tick_pc = "idle"
    /\ event = UserEvent(EVENT_TICKER)
    /\ Pending(queue, EVENT_STATUS) > 0
    /\ Pending(queue, EVENT_TICKER) = 0
    /\ Pending(queue, EVENT_QUIT) = 0



(* C33: with the interface thread and the timer scheduled fairly, nobody   *)
(* stopping the interface and the decks area large enough, every firing    *)
(* of the timer is followed by an iteration that paints and publishes the  *)
(* decks, whatever status changes are posted meanwhile.                    *)
TimerFired == tick_pc \in {"push", "found"}

DecksRepainted == pc = "unlock" /\ Drawn("decks") /\ Published("decks")

C33_TickLeadsToDecksRepaint == TimerFired ~> DecksRepainted


=============================================================================
